---- MODULE Spec2Model ----
(***************************************************************************)
(* Model of the taxonomy build (scripts/build_taxonomy.py) and of the      *)
(* fuzzy search of the taxonomy browser (scripts/taxonomy_browser.py).     *)
(*                                                                         *)
(* Representation of Python strings:                                       *)
(*  - a table name is the sequence of its "_"-separated segments, i.e.     *)
(*    what table.split("_") returns: "session_app" is <<"session","app">>, *)
(*    "_app" is <<"", "app">>, the empty string is <<"">>.  A string is    *)
(*    therefore a NON-empty sequence of segments and <<>> is free to stand *)
(*    for Python's None;                                                   *)
(*  - group names, domain names and descriptions are never taken apart by  *)
(*    the build and are TLA+ strings;                                      *)
(*  - the texts handled by the search are sequences of one-character       *)
(*    strings.                                                             *)
(***************************************************************************)
EXTENDS Integers, Sequences, FiniteSets, TLC

VARIABLES
    pc,                     \* position of the build / search / function call
    tables,                 \* build input: data["tables"]
    groups,                 \* build input: data["metadata"]["groups"]
    table_descriptions,     \* build_taxonomy local
    table_to_groups,        \* build_taxonomy local
    ungrouped,              \* build_taxonomy local
    normalized_groups,      \* build_taxonomy local, output group_hierarchy
    misc_subgroups,         \* build_taxonomy local
    domains,                \* output domains
    table_index,            \* output table_index
    table_details,          \* output table_details
    explicit_relationships, \* output explicit_relationships
    fam_in,                 \* build_families: argument
    fam_out,                \* build_families: returned dict
    fz_query,               \* fuzzy_score: query argument
    fz_text,                \* fuzzy_score: text argument
    fz_score,               \* fuzzy_score(query, text)
    fz_score_ext,           \* fuzzy_score(query, text + " " + query)
    fz_score_self,          \* fuzzy_score(query, query)
    search_query,           \* browser: query, the text of the search box
    browser_table_index,    \* browser: taxonomy["table_index"], in the file's order
    browser_table_details,  \* browser: taxonomy["table_details"]
    results,                \* browser: the list built and sorted by the search
    shown,                  \* browser: the results displayed, results[:15]
    previous_output,        \* what an earlier run of the build wrote, if any
    col_name,               \* column encoding: the column's name
    col_type,               \* column encoding: its DATA_TYPE
    col_desc,               \* column encoding: its description
    parsed,                 \* parse_column of the encoded column
    parsed_bare,            \* parse_column of the name alone
    caller,                 \* who runs the build: app.py or build_taxonomy.py as a script
    context_file,           \* context.json: missing, unreadable, or its content
    taxonomy_json,          \* taxonomy.json: None while the file does not exist
    taxonomy_md,            \* taxonomy.md: None while the file does not exist
    build_error,            \* the exception build_taxonomy raised to its caller
    app_error,              \* the st.error message of ensure_taxonomy
    browser,                \* whether taxonomy_browser.main() was started
    sess_query,             \* browser sessions: the query of each session
    sess_phase,             \* browser sessions: where each session's search is
    sess_next,              \* browser sessions: the position of table_index.items() it scores next
    sess_results,           \* browser sessions: its results list
    curator_groups,         \* curator: state['groups'] as saved
    selected_groups,        \* curator: st.session_state.selected_groups
    submission              \* curator: how the last form or button handler ended

vars == <<pc, tables, groups, table_descriptions, table_to_groups, ungrouped,
          normalized_groups, misc_subgroups, domains, table_index, table_details,
          explicit_relationships, fam_in, fam_out,
          fz_query, fz_text, fz_score, fz_score_ext, fz_score_self,
          search_query, browser_table_index, browser_table_details, results,
          shown, previous_output,
          col_name, col_type, col_desc, parsed, parsed_bare,
          caller, context_file, taxonomy_json, taxonomy_md, build_error, app_error, browser,
          sess_query, sess_phase, sess_next, sess_results,
          curator_groups, selected_groups, submission>>

buildVars == <<tables, groups, table_descriptions, table_to_groups, ungrouped,
               normalized_groups, misc_subgroups, domains, table_index,
               table_details, explicit_relationships>>

famVars == <<fam_in, fam_out>>

fuzzyVars == <<fz_query, fz_text, fz_score, fz_score_ext, fz_score_self>>

searchVars ==
    <<search_query, browser_table_index, browser_table_details, results, shown>>

runVars == <<previous_output>>

colVars == <<col_name, col_type, col_desc, parsed, parsed_bare>>

ioVars ==
    <<caller, context_file, taxonomy_json, taxonomy_md, build_error, app_error,
      browser>>

sessionVars == <<sess_query, sess_phase, sess_next, sess_results>>

curatorVars == <<curator_groups, selected_groups, submission>>

(***************************************************************************)
(* Bounds of the model.                                                    *)
(***************************************************************************)
MaxTables == 4      \* longest data["tables"] list given to the build
MaxFamInput == 3    \* longest list given to build_families on its own
MaxLen == 3         \* longest query / text given to fuzzy_score on its own
MaxIndex == 17      \* most tables of the index a search runs over

(***************************************************************************)
(* Generic helpers.                                                        *)
(***************************************************************************)
None == <<>>

Range(s) == {s[i] : i \in DOMAIN s}

Max2(a, b) == IF a >= b THEN a ELSE b

RECURSIVE SeqsUpTo(_, _)
\* all sequences over S of length <= n
SeqsUpTo(S, n) ==
    IF n = 0 THEN {<<>>}
    ELSE LET shorter == SeqsUpTo(S, n - 1)
         IN  shorter \cup {Append(s, x) : s \in {t \in shorter : Len(t) = n - 1}, x \in S}

RECURSIVE SelectSeqBy(_, _)
\* [x for x in s if x in keep]
SelectSeqBy(s, keep) ==
    IF s = <<>> THEN <<>>
    ELSE IF s[1] \in keep THEN <<s[1]>> \o SelectSeqBy(Tail(s), keep)
         ELSE SelectSeqBy(Tail(s), keep)

IsInjective(s) == \A i, j \in DOMAIN s : s[i] = s[j] => i = j

(***************************************************************************)
(* Python's ordering of str, as used by sorted().  Segments and names are  *)
(* lower-case ASCII, for which comparing the "_"-joined strings is the     *)
(* lexicographic comparison of the segment sequences ("_" sorts before     *)
(* every lower-case letter, and a prefix sorts first).                     *)
(***************************************************************************)
SegOrder ==
    <<"", "aisn", "app", "change", "clinic", "clinical", "data", "foo", "home",
      "hospital", "icu", "log", "metric", "metrics", "notes", "patient", "plus",
      "prescription", "reason", "recording", "recsys", "session", "staging", "station",
      "trials", "web", "x", "y", "zeta">>

SegRank(s) == CHOOSE i \in DOMAIN SegOrder : SegOrder[i] = s

RECURSIVE NameLeq(_, _)
NameLeq(a, b) ==
    IF a = <<>> THEN TRUE
    ELSE IF b = <<>> THEN FALSE
    ELSE IF a[1] = b[1] THEN NameLeq(Tail(a), Tail(b))
    ELSE SegRank(a[1]) < SegRank(b[1])

RECURSIVE InsertName(_, _)
InsertName(x, s) ==
    IF s = <<>> THEN <<x>>
    ELSE IF NameLeq(s[1], x) THEN <<s[1]>> \o InsertName(x, Tail(s))
    ELSE <<x>> \o s

RECURSIVE sorted(_)
\* sorted(list of table names): duplicates are kept
sorted(s) == IF s = <<>> THEN <<>> ELSE InsertName(s[Len(s)], sorted(SubSeq(s, 1, Len(s) - 1)))

IsSortedNames(s) == \A i \in 1..(Len(s) - 1) : NameLeq(s[i], s[i + 1])

\* code-point order of the group names the model uses
GroupOrder ==
    <<"AI Coach", "AISN", "Clinician", "Difficulty Adaptation and Performance",
      "EmotionalSlider", "Hospital", "Kinematic Features", "Miscellaneous",
      "Patient", "Prescriptions", "RGS Housekeeping", "RecSys", "Recordings",
      "SaddlePoint", "Zeta", "patient_aisn_data", "sessions">>

\* code-point order of the domain names and of the Miscellaneous subgroup names
LabelOrder ==
    <<"Clinical Trial", "Clinical and Data Sources", "Codes and Reference",
      "Device and Telemetry", "Difficulty Adaptation and Performance",
      "Engagement and Coaching", "Measurements and Features",
      "Metrics and Monitoring", "Miscellaneous", "Other", "Predictive Analytics",
      "Prescription Support", "RGS Core", "RGS Housekeeping">>

RECURSIVE SortedByOrder(_, _)
\* sorted(S) for a set S of strings listed in `order`
SortedByOrder(S, order) ==
    IF order = <<>> THEN <<>>
    ELSE IF order[1] \in S THEN <<order[1]>> \o SortedByOrder(S, Tail(order))
    ELSE SortedByOrder(S, Tail(order))

sorted_set(S) == SortedByOrder(S, GroupOrder)

IsSortedGroups(s) ==
    \A i \in 1..(Len(s) - 1) :
        \E a, b \in DOMAIN GroupOrder : a < b /\ GroupOrder[a] = s[i] /\ GroupOrder[b] = s[i + 1]

RECURSIVE SortedNameSet(_)
\* sorted(S) for a set S of table names / family names
SortedNameSet(S) ==
    IF S = {} THEN <<>>
    ELSE LET least == CHOOSE x \in S : \A y \in S : NameLeq(x, y)
         IN  <<least>> \o SortedNameSet(S \ {least})

(***************************************************************************)
(* Module-level constants of build_taxonomy.py.                            *)
(***************************************************************************)
SUFFIXES == {"app", "clinic", "home", "icu", "plus", "web"}

DOMAIN_GROUPS ==
    << [name |-> "RGS Core",
        groups |-> <<"Patient", "Clinician", "Hospital", "Prescriptions", "sessions",
                     "Recordings", "patient_aisn_data">>],
       [name |-> "Clinical Trial", groups |-> <<"AISN">>],
       [name |-> "Engagement and Coaching", groups |-> <<"AI Coach", "EmotionalSlider">>],
       [name |-> "Difficulty Adaptation and Performance",
        groups |-> <<"Difficulty Adaptation and Performance">>],
       [name |-> "Measurements and Features", groups |-> <<"Kinematic Features">>],
       [name |-> "Predictive Analytics", groups |-> <<"RecSys", "SaddlePoint">>],
       [name |-> "RGS Housekeeping", groups |-> <<"RGS Housekeeping">>],
       [name |-> "Miscellaneous", groups |-> <<"Miscellaneous">>] >>

GROUP_DESCRIPTIONS ==
    [g \in {"AI Coach", "AISN", "Clinician", "Difficulty Adaptation and Performance",
            "EmotionalSlider", "Hospital", "Kinematic Features", "Patient",
            "Prescriptions", "RGS Housekeeping", "RecSys", "Recordings", "SaddlePoint",
            "patient_aisn_data", "sessions", "Miscellaneous"} |->
        CASE g = "AI Coach" -> "Coaching messages, schedules, and commitment tracking."
          [] g = "AISN" -> "AISN clinical trial context (no direct tables)."
          [] g = "Clinician" -> "Clinician profiles, activities, and patient/protocol links."
          [] g = "Difficulty Adaptation and Performance" ->
                 "Adaptive difficulty settings, parameters, and performance estimators."
          [] g = "EmotionalSlider" -> "Emotional questionnaires and evaluations."
          [] g = "Hospital" -> "Hospital organizations, subscriptions, software/protocol links."
          [] g = "Kinematic Features" ->
                 "Kinematic features captured from sessions (e.g., displacement, volume, surfaces)."
          [] g = "Patient" -> "Patient profiles, devices, diagnoses, language, and subscriptions."
          [] g = "Prescriptions" -> "Prescriptions across application contexts."
          [] g = "RGS Housekeeping" -> "Reference entities: protocols, platforms, software, versions."
          [] g = "RecSys" -> "Recommendation system data, metrics, notes, and staging."
          [] g = "Recordings" -> "Recordings across application contexts."
          [] g = "SaddlePoint" -> "Predictive analytics (SPS) sources, diagnosis, prognosis."
          [] g = "patient_aisn_data" -> "AISN-specific patient data."
          [] g = "sessions" -> "Sessions across application contexts."
          [] g = "Miscellaneous" -> "Ungrouped or uncategorized tables."]

TABLE_GROUP_SET ==
    (<<"metric", "app">> :> <<"Kinematic Features">>)
    @@ (<<"metric", "plus">> :> <<"Kinematic Features">>)
    @@ (<<"prescription", "change", "reason">> :> <<"Prescriptions", "RecSys">>)

TABLE_GROUP_ADD ==
    (<<"patient", "aisn", "data">> :> <<"AISN">>)
    @@ (<<"clinical", "trials">> :> <<"AISN">>)

EXPLICIT_RELATIONSHIPS ==
    << [source |-> <<"patient">>, target |-> <<"hospital">>,
        columns |-> <<"hospital_id">>, type |-> "foreign_key",
        note |-> "Each patient is assigned to a hospital."],
       [source |-> <<"recsys", "metrics">>, target |-> <<"prescription", "staging">>,
        columns |-> <<"recommendation_id">>, type |-> "reference",
        note |-> "Recsys metrics are tied to staged prescriptions."] >>

TABLE_DESCRIPTION_OVERRIDES ==
    (<<"patient">> :> "Main patient table at signup with identity and demographic fields.")
    @@ (<<"patient", "aisn", "data">> :>
            "AISN-related patient data (experimental group, demographics, start date).")
    @@ (<<"clinical", "trials">> :> "Clinical trial scores and assessments for enrolled patients.")
    @@ (<<"prescription", "staging">> :> "Recsys-staged prescriptions awaiting clinician approval.")
    @@ (<<"prescription", "plus">> :> "Clinician-approved prescriptions (moved from staging).")
    @@ (<<"recsys", "metrics">> :>
            "Metrics used by the recommender system (delta_dm, adherence, PPF, etc.).")
    @@ (<<"recsys", "intrinsic", "measures">> :>
            "Clinic evaluation milestones (baseline, end, follow-up).")
    @@ (<<"recsys", "diagnostic">> :> "Home diagnostic evaluation schedules for RGS app protocols.")
    @@ (<<"recsys", "notes">> :> "Clinician notes associated with recommender system output.")
    @@ (<<"prescription", "change", "reason">> :> "Reasons for prescription changes.")

FAMILY_DESCRIPTION_OVERRIDES ==
    (<<"session">> :> "Session instances tied to prescriptions (id, status, timing).")
    @@ (<<"recording">> :> "Session recordings including duration and other capture metrics.")
    @@ (<<"parameter">> :> "Last logged difficulty modulator for a session.")
    @@ (<<"difficulty", "modulators">> :>
            "Time series of difficulty modulator values per patient/protocol.")
    @@ (<<"performance", "estimators">> :>
            "Time series of performance estimators used to adapt difficulty.")
    @@ (<<"prescription">> :> "Prescriptions across app/clinic/home/plus/web contexts.")
    @@ (<<"metric">> :>
            "Kinematic feature measurements (e.g., displacement, volume, surface area).")

UNCATEGORIZED_NOTES ==
    (<<"clinical", "data">> :> "Likely raw clinical inputs or measurements.")
    @@ (<<"code">> :> "Generic code/reference table.")
    @@ (<<"code", "redemption">> :> "Code usage or redemption tracking.")
    @@ (<<"control", "plus">> :> "Control/telemetry data for plus variant.")
    @@ (<<"device", "cloud", "messaging">> :> "Device messaging or telemetry stream.")
    @@ (<<"metric", "app">> :> "Metrics captured from app.")
    @@ (<<"metric", "plus">> :> "Metrics captured from plus variant.")
    @@ (<<"prediction", "data", "source", "clinical">> :> "Clinical data source for predictions.")
    @@ (<<"prescription", "change", "reason">> :> "Reasons for prescription changes.")
    @@ (<<"reference", "date", "wear">> :> "Reference dates for wear data.")
    @@ (<<"station">> :> "Device or station metadata.")
    @@ (<<"tree">> :> "Generic hierarchy/tree structure.")

MISC_SUBGROUP_DESCRIPTIONS ==
    ("Clinical and Data Sources" :> "Clinical source data and clinical prediction sources.")
    @@ ("Device and Telemetry" :> "Device, station, and telemetry related tables.")
    @@ ("Metrics and Monitoring" :> "Metrics captured from applications.")
    @@ ("Codes and Reference" :> "Codes, code usage, and reference structures.")
    @@ ("Prescription Support" :> "Supporting data for prescription changes.")
    @@ ("Other" :> "Miscellaneous tables that do not fit other subgroups.")

\* dict.get(key, default)
Get(d, key, default) == IF key \in DOMAIN d THEN d[key] ELSE default

(***************************************************************************)
(* Family resolver.                                                        *)
(***************************************************************************)
\* "_".join(parts): joining no part at all gives the empty string
Join(parts) == IF parts = <<>> THEN <<"">> ELSE parts

\* truth value of a `str | None`: None and "" are both false
Truthy(s) == s # None /\ s # <<"">>

family_name(table) ==
    LET parts == table
    IN  IF parts # <<>> /\ parts[Len(parts)] \in SUFFIXES
        THEN Join(SubSeq(parts, 1, Len(parts) - 1))
        ELSE None

\* the `if fam and counts.get(fam, 0) > 1` of build_families
FamilyKept(fam, count) == Truthy(fam) /\ count > 1

build_families(tbls) ==
    LET counts(f) == Cardinality({i \in DOMAIN tbls : family_name(tbls[i]) = f})
        keys == {f \in {family_name(tbls[i]) : i \in DOMAIN tbls} : FamilyKept(f, counts(f))}
        Members(f) == LET InFam(t) == family_name(t) = f IN SelectSeq(tbls, InFam)
    IN  [f \in keys |-> sorted(Members(f))]

\* apply_table_description with the two lookups in the other order
FamilyOverrideFirst(table_name, default_desc) ==
    LET fam == family_name(table_name)
    IN  IF Truthy(fam) /\ fam \in DOMAIN FAMILY_DESCRIPTION_OVERRIDES
        THEN FAMILY_DESCRIPTION_OVERRIDES[fam]
        ELSE IF table_name \in DOMAIN TABLE_DESCRIPTION_OVERRIDES
             THEN TABLE_DESCRIPTION_OVERRIDES[table_name]
             ELSE default_desc

apply_table_description(table_name, default_desc) ==
    IF table_name \in DOMAIN TABLE_DESCRIPTION_OVERRIDES
    THEN TABLE_DESCRIPTION_OVERRIDES[table_name]
    ELSE LET fam == family_name(table_name)
         IN  IF Truthy(fam) /\ fam \in DOMAIN FAMILY_DESCRIPTION_OVERRIDES
             THEN FAMILY_DESCRIPTION_OVERRIDES[fam]
             ELSE default_desc

(***************************************************************************)
(* Column strings are sequences of characters; the empty string is <<>>.   *)
(***************************************************************************)
\* str.find(pat) + 1: position of the first occurrence of pat in s, 0 if none
Find(s, pat) ==
    LET hits == {i \in 1..(Len(s) - Len(pat) + 1) : SubSeq(s, i, i + Len(pat) - 1) = pat}
    IN  IF hits = {} THEN 0 ELSE CHOOSE i \in hits : \A j \in hits : i <= j

RECURSIVE lstrip(_, _)
\* s.lstrip(chars)
lstrip(s, chars) ==
    IF s # <<>> /\ s[1] \in chars THEN lstrip(Tail(s), chars) ELSE s

RECURSIVE rstrip(_, _)
rstrip(s, chars) ==
    IF s # <<>> /\ s[Len(s)] \in chars THEN rstrip(SubSeq(s, 1, Len(s) - 1), chars) ELSE s

\* s.strip()
strip(s) == rstrip(lstrip(s, {" "}), {" "})

\* parse_column without the "):" branch of lines 176-177: the rest is always
\* split at its first ")"
ParseColumnSplitAtParen(col_str) ==
    LET p == Find(col_str, <<" ", "(">>)
    IN  IF p = 0
        THEN [name |-> strip(col_str), data_type |-> <<>>, description |-> <<>>]
        ELSE LET name == SubSeq(col_str, 1, p - 1)
                 rest == SubSeq(col_str, p + 2, Len(col_str))
                 r == Find(rest, <<")">>)
                 data_type == IF r > 0 THEN SubSeq(rest, 1, r - 1) ELSE rest
                 description == IF r > 0 THEN SubSeq(rest, r + 1, Len(rest))
                                ELSE <<>>
             IN  [name |-> strip(name),
                  data_type |-> strip(data_type),
                  description |-> strip(lstrip(strip(description), {":"}))]

parse_column(col_str) ==
    LET p == Find(col_str, <<" ", "(">>)
    IN  IF p = 0
        THEN [name |-> strip(col_str), data_type |-> <<>>, description |-> <<>>]
        ELSE LET name == SubSeq(col_str, 1, p - 1)
                 rest == SubSeq(col_str, p + 2, Len(col_str))
                 q == Find(rest, <<")", ":">>)
                 r == Find(rest, <<")">>)
                 data_type == IF q > 0 THEN SubSeq(rest, 1, q - 1)
                              ELSE IF r > 0 THEN SubSeq(rest, 1, r - 1)
                              ELSE rest
                 description == IF q > 0 THEN SubSeq(rest, q + 2, Len(rest))
                                ELSE IF r > 0 THEN SubSeq(rest, r + 1, Len(rest))
                                ELSE <<>>
             IN  [name |-> strip(name),
                  data_type |-> strip(data_type),
                  description |-> strip(lstrip(strip(description), {":"}))]

(***************************************************************************)
(* Inputs of the build: context.json.                                      *)
(***************************************************************************)
ColFull == <<"i", "d", " ", "(", "I", ")", ":", " ", "k">>     \* "id (I): k"
ColBare == <<"s", "t">>                                         \* "st"
ColNoColon == <<"n", " ", "(", "T", ")", " ", "d">>             \* "n (T) d"
ColOpen == <<"n", " ", "(", "T">>                               \* "n (T"

\* the table records an input is made of, in the order they are listed
TablePool ==
    << [table |-> <<"session", "app">>, description |-> "App sessions",
        groups |-> <<"sessions">>, columns |-> <<ColFull, ColBare>>],
       [table |-> <<"session", "clinic">>, description |-> "Clinic sessions",
        groups |-> <<"sessions">>, columns |-> <<ColFull>>],
       [table |-> <<"prescription", "app">>, description |-> "App prescriptions",
        groups |-> <<"Prescriptions">>, columns |-> <<ColFull>>],
       [table |-> <<"prescription", "clinic">>, description |-> "Clinic prescriptions",
        groups |-> <<"Prescriptions">>, columns |-> <<>>],
       [table |-> <<"metric", "app">>, description |-> "App metrics",
        groups |-> <<"Patient">>, columns |-> <<ColNoColon>>],
       [table |-> <<"clinical", "trials">>, description |-> "Trials",
        groups |-> <<"Patient">>, columns |-> <<ColOpen>>],
       [table |-> <<"patient", "aisn", "data">>, description |-> "Patient AISN data",
        groups |-> <<"patient_aisn_data", "AISN", "patient_aisn_data">>, columns |-> <<>>],
       [table |-> <<"patient">>, description |-> "Patients",
        groups |-> <<"Patient">>, columns |-> <<ColFull>>],
       [table |-> <<"hospital">>, description |-> "Hospitals",
        groups |-> <<"Hospital">>, columns |-> <<ColBare>>],
       [table |-> <<"station">>, description |-> "Stations",
        groups |-> <<>>, columns |-> <<>>],
       [table |-> <<"foo", "app">>, description |-> "",
        groups |-> <<>>, columns |-> <<ColBare>>],
       [table |-> <<"notes">>, description |-> "Free notes",
        groups |-> <<"Miscellaneous">>, columns |-> <<>>],
       [table |-> <<"zeta", "log">>, description |-> "Zeta log",
        groups |-> <<"Zeta", "Patient">>, columns |-> <<>>],
       [table |-> <<"recording", "app">>, description |-> "App recordings",
        groups |-> <<>>, columns |-> <<>>],
       [table |-> <<"prescription", "plus">>, description |-> "Plus prescriptions",
        groups |-> <<"Prescriptions">>, columns |-> <<>>] >>

Reverse(s) == [i \in 1..Len(s) |-> s[Len(s) + 1 - i]]

RECURSIVE PoolSelection(_, _)
\* the records of TablePool at the positions of `picked`, from position i on
PoolSelection(picked, i) ==
    IF i > Len(TablePool) THEN <<>>
    ELSE IF i \in picked THEN <<TablePool[i]>> \o PoolSelection(picked, i + 1)
    ELSE PoolSelection(picked, i + 1)

\* data["tables"]: at most MaxTables records with distinct names, listed in the
\* pool's order or in the reverse order
TableInputs ==
    UNION { {PoolSelection(picked, 1), Reverse(PoolSelection(picked, 1))} :
            picked \in {s \in SUBSET (1..Len(TablePool)) : Cardinality(s) <= MaxTables} }

\* data["metadata"]["groups"]
GroupInputs ==
    { <<>>,
      ("Patient" :> [description |-> "Declared patient group",
                     parent_groups |-> <<"Hospital", "AISN", "Clinician">>])
         @@ ("AISN" :> [description |-> "Declared trial group",
                        parent_groups |-> <<"AISN", "Patient">>]),
      ("Zeta" :> [description |-> "Declared zeta group", parent_groups |-> <<"AISN">>])
         @@ ("Hospital" :> [description |-> "", parent_groups |-> <<"Patient">>])
         @@ ("Patient" :> [description |-> "", parent_groups |-> <<"Hospital">>]),
      ("Miscellaneous" :> [description |-> "Declared misc group",
                           parent_groups |-> <<"AISN", "Zeta", "AISN">>]) }

TableNames(tbls) == [i \in DOMAIN tbls |-> tbls[i].table]

RECURSIVE KeyOrder(_)
\* the keys of a dict filled in the order of s: each key once, at its first place
KeyOrder(s) ==
    IF s = <<>> THEN <<>>
    ELSE LET init == KeyOrder(SubSeq(s, 1, Len(s) - 1))
         IN  IF s[Len(s)] \in Range(init) THEN init ELSE Append(init, s[Len(s)])

\* the record a dict keyed by table name ends up holding: the last one listed
RecordOf(tbls, name) ==
    tbls[CHOOSE i \in DOMAIN tbls :
            tbls[i].table = name /\ \A j \in DOMAIN tbls : tbls[j].table = name => j <= i]

(***************************************************************************)
(* The values of the variables a specification does not use.               *)
(***************************************************************************)
BuildIdle ==
    /\ tables = <<>>
    /\ groups = <<>>
    /\ table_descriptions = <<>>
    /\ table_to_groups = <<>>
    /\ ungrouped = <<>>
    /\ normalized_groups = <<>>
    /\ misc_subgroups = <<>>
    /\ domains = <<>>
    /\ table_index = <<>>
    /\ table_details = <<>>
    /\ explicit_relationships = <<>>

FamiliesIdle ==
    /\ fam_in = <<>>
    /\ fam_out = <<>>

FuzzyIdle ==
    /\ fz_query = <<>>
    /\ fz_text = <<>>
    /\ fz_score = None
    /\ fz_score_ext = None
    /\ fz_score_self = None

SearchIdle ==
    /\ search_query = <<>>
    /\ browser_table_index = <<>>
    /\ browser_table_details = <<>>
    /\ results = <<>>
    /\ shown = <<>>

RunsIdle == previous_output = None

ColumnsIdle ==
    /\ col_name = <<>>
    /\ col_type = <<>>
    /\ col_desc = <<>>
    /\ parsed = None
    /\ parsed_bare = None

FilesIdle ==
    /\ caller = "none"
    /\ context_file = None
    /\ taxonomy_json = None
    /\ taxonomy_md = None
    /\ build_error = "none"
    /\ app_error = "none"
    /\ browser = "not_started"

SessionsIdle ==
    /\ sess_query = <<>>
    /\ sess_phase = <<>>
    /\ sess_next = <<>>
    /\ sess_results = <<>>

CuratorIdle ==
    /\ curator_groups = <<>>
    /\ selected_groups = {}
    /\ submission = "none"

(***************************************************************************)
(* build_taxonomy(), one action per block of the function.                 *)
(***************************************************************************)
\* lines 212-217
DescribeTables ==
    /\ pc = "start"
    /\ table_descriptions' =
          [name \in Range(TableNames(tables)) |->
              apply_table_description(name, RecordOf(tables, name).description)]
    /\ pc' = "described"
    /\ UNCHANGED <<tables, groups, table_to_groups, ungrouped, normalized_groups,
                   misc_subgroups, domains, table_index, table_details,
                   explicit_relationships, famVars, fuzzyVars, searchVars, runVars, colVars, ioVars, sessionVars, curatorVars>>

\* base_groups = list(t.get("groups", [])): a copy of the declared list
base_groups(t) == t.groups

RECURSIVE AppendMissing(_, _)
\* for g in additions: if g not in group_list: group_list.append(g)
AppendMissing(group_list, additions) ==
    IF additions = <<>> THEN group_list
    ELSE AppendMissing(IF additions[1] \in Range(group_list) THEN group_list
                       ELSE Append(group_list, additions[1]),
                       Tail(additions))

\* lines 226-231 without the additions of TABLE_GROUP_ADD
GroupListDropsAdditions(t) ==
    IF t.table \in DOMAIN TABLE_GROUP_SET THEN TABLE_GROUP_SET[t.table]
    ELSE base_groups(t)

\* lines 224-231 with the override appended to the declared groups
GroupListMergesOverride(t) ==
    AppendMissing(AppendMissing(base_groups(t), Get(TABLE_GROUP_SET, t.table, <<>>)),
                  Get(TABLE_GROUP_ADD, t.table, <<>>))

\* the group_list of lines 224-231, before it is deduplicated and sorted
group_list(t) ==
    IF t.table \in DOMAIN TABLE_GROUP_SET
    THEN TABLE_GROUP_SET[t.table]
    ELSE AppendMissing(base_groups(t), Get(TABLE_GROUP_ADD, t.table, <<>>))

\* t["groups"] of the input record once its group_list is built: base_groups is
\* a copy, so the appends of line 231 do not reach the input
DeclaredGroupsAfter(t) == t.groups

\* lines 219-232
ResolveGroups ==
    /\ pc = "described"
    /\ table_to_groups' =
          [name \in Range(TableNames(tables)) |->
              sorted_set(Range(group_list(RecordOf(tables, name))))]
    /\ tables' = [i \in DOMAIN tables |->
                    [tables[i] EXCEPT !.groups = DeclaredGroupsAfter(tables[i])]]
    /\ pc' = "resolved"
    /\ UNCHANGED <<groups, table_descriptions, ungrouped, normalized_groups,
                   misc_subgroups, domains, table_index, table_details,
                   explicit_relationships, famVars, fuzzyVars, searchVars, runVars, colVars, ioVars, sessionVars, curatorVars>>

\* line 235: the keys of table_to_groups, in insertion order, whose list is empty
Ungrouped(t2g, order) ==
    LET IsUngrouped(name) == t2g[name] = <<>> IN SelectSeq(order, IsUngrouped)

\* lines 254-263: the tables appended to group gname, in insertion order
GroupMembers(t2g, order, gname) ==
    LET IsMember(name) == gname \in Range(t2g[name]) IN SelectSeq(order, IsMember)

\* line 266
MiscellaneousTables(ungr, appended) == sorted(ungr)

\* lines 234-266
NormalizeGroups ==
    /\ pc = "resolved"
    /\ LET order == KeyOrder(TableNames(tables))
           ungr == Ungrouped(table_to_groups, order)
           used == UNION {Range(table_to_groups[name]) : name \in DOMAIN table_to_groups}
           names == DOMAIN groups \cup DOMAIN GROUP_DESCRIPTIONS \cup used
           members(g) == GroupMembers(table_to_groups, order, g)
       IN  /\ ungrouped' = ungr
           /\ normalized_groups' =
                 [g \in names |->
                     [description |->
                          IF g \in DOMAIN groups THEN groups[g].description
                          ELSE Get(GROUP_DESCRIPTIONS, g, ""),
                      parent_groups |->
                          IF g \in DOMAIN groups THEN groups[g].parent_groups ELSE <<>>,
                      tables |->
                          IF g = "Miscellaneous" THEN MiscellaneousTables(ungr, members(g))
                          ELSE members(g)]]
    /\ pc' = "normalized"
    /\ UNCHANGED <<tables, groups, table_descriptions, table_to_groups, misc_subgroups,
                   domains, table_index, table_details, explicit_relationships,
                   famVars, fuzzyVars, searchVars, runVars, colVars, ioVars, sessionVars, curatorVars>>

\* line 272 without the filter
StripKeepsAll(gname, parents) == parents

\* lines 270-272: [p for p in parents if p != "AISN"], AISN's own list kept
StrippedParents(gname, parents) ==
    IF gname # "AISN"
    THEN LET NotAISN(p) == p # "AISN" IN SelectSeq(parents, NotAISN)
    ELSE parents

\* lines 268-272
StripAISN ==
    /\ pc = "normalized"
    /\ normalized_groups' =
          [g \in DOMAIN normalized_groups |->
              [normalized_groups[g] EXCEPT
                  !.parent_groups = StrippedParents(g, normalized_groups[g].parent_groups)]]
    /\ pc' = "stripped"
    /\ UNCHANGED <<tables, groups, table_descriptions, table_to_groups, ungrouped,
                   misc_subgroups, domains, table_index, table_details,
                   explicit_relationships, famVars, fuzzyVars, searchVars, runVars, colVars, ioVars, sessionVars, curatorVars>>

\* lines 277-288 with the allow-lists ignored
BucketAlwaysOther(table) == "Other"

\* lines 277-288
Bucket(table) ==
    IF table \in {<<"metric", "app">>, <<"metric", "plus">>}
    THEN "Metrics and Monitoring"
    ELSE IF table \in {<<"clinical", "data">>, <<"prediction", "data", "source", "clinical">>}
    THEN "Clinical and Data Sources"
    ELSE IF table \in {<<"device", "cloud", "messaging">>, <<"station">>,
                       <<"control", "plus">>, <<"reference", "date", "wear">>}
    THEN "Device and Telemetry"
    ELSE IF table \in {<<"code">>, <<"code", "redemption">>, <<"tree">>}
    THEN "Codes and Reference"
    ELSE IF table \in {<<"prescription", "change", "reason">>}
    THEN "Prescription Support"
    ELSE "Other"

\* lines 274-292
BuildMiscSubgroups ==
    /\ pc = "stripped"
    /\ misc_subgroups' =
          [b \in {Bucket(ungrouped[i]) : i \in DOMAIN ungrouped} |->
              LET InBucket(t) == Bucket(t) = b IN sorted(SelectSeq(ungrouped, InBucket))]
    /\ pc' = "bucketed"
    /\ UNCHANGED <<tables, groups, table_descriptions, table_to_groups, ungrouped,
                   normalized_groups, domains, table_index, table_details,
                   explicit_relationships, famVars, fuzzyVars, searchVars, runVars, colVars, ioVars, sessionVars, curatorVars>>

\* lines 313-320 / 346-353: the table_families of a group or subgroup view
\* (the display label titleize(fam) is not modelled)
FamilyViews(families) ==
    LET keys == SortedNameSet(DOMAIN families)
    IN  [i \in DOMAIN keys |-> [family |-> keys[i], variants |-> families[keys[i]]]]

\* lines 307-308 and 321-328 / 340-341 and 354-361: the standalone tables of a view
StandaloneViews(tbls, families) ==
    LET family_tables == UNION {Range(families[f]) : f \in DOMAIN families}
        standalone == SelectSeqBy(tbls, Range(tbls) \ family_tables)
    IN  [i \in DOMAIN standalone |->
            [table |-> standalone[i], note |-> Get(UNCATEGORIZED_NOTES, standalone[i], "")]]

\* lines 337-363
SubgroupViews(subgroups) ==
    LET buckets == SortedByOrder(DOMAIN subgroups, LabelOrder)
    IN  [i \in DOMAIN buckets |->
            LET bucket_tables == subgroups[buckets[i]]
                bucket_families == build_families(bucket_tables)
            IN  [name |-> buckets[i],
                 description |-> Get(MISC_SUBGROUP_DESCRIPTIONS, buckets[i], ""),
                 table_families |-> FamilyViews(bucket_families),
                 tables |-> StandaloneViews(bucket_tables, bucket_families)]]

\* lines 332-335 omitted: the Miscellaneous group lists its tables itself
MiscViewKeepsTables(group_obj, subgroups) ==
    [group_obj EXCEPT !.subgroups = SubgroupViews(subgroups)]

\* lines 332-364
MiscView(group_obj, subgroups) ==
    [group_obj EXCEPT !.tables = <<>>,
                      !.table_families = <<>>,
                      !.subgroups = SubgroupViews(subgroups)]

\* lines 303-365
GroupView(group_name, ngroups, subgroups) ==
    LET group_tables == IF group_name \in DOMAIN ngroups
                        THEN sorted(ngroups[group_name].tables) ELSE <<>>
        families == build_families(group_tables)
        group_obj == [name |-> group_name,
                      description |->
                          IF group_name \in DOMAIN GROUP_DESCRIPTIONS
                          THEN GROUP_DESCRIPTIONS[group_name]
                          ELSE IF group_name \in DOMAIN ngroups
                               THEN ngroups[group_name].description ELSE "",
                      table_families |-> FamilyViews(families),
                      tables |-> StandaloneViews(group_tables, families),
                      subgroups |-> <<>>]
    IN  IF group_name = "Miscellaneous" THEN MiscView(group_obj, subgroups) ELSE group_obj

\* lines 294-366
BuildDomains ==
    /\ pc = "bucketed"
    /\ domains' =
          [d \in DOMAIN DOMAIN_GROUPS |->
              [name |-> DOMAIN_GROUPS[d].name,
               description |-> "",
               groups |-> [k \in DOMAIN DOMAIN_GROUPS[d].groups |->
                              GroupView(DOMAIN_GROUPS[d].groups[k], normalized_groups,
                                        misc_subgroups)]]]
    /\ pc' = "domains"
    /\ UNCHANGED <<tables, groups, table_descriptions, table_to_groups, ungrouped,
                   normalized_groups, misc_subgroups, table_index, table_details,
                   explicit_relationships, famVars, fuzzyVars, searchVars, runVars, colVars, ioVars, sessionVars, curatorVars>>

\* lines 369-372 and 382: domain_by_group.get(g, default), the dict holding for
\* each group of the domains view the last domain that lists it
domain_by_group(doms, g, default) ==
    LET hits == {d \in DOMAIN doms : \E k \in DOMAIN doms[d].groups : doms[d].groups[k].name = g}
    IN  IF hits = {} THEN default
        ELSE doms[CHOOSE d \in hits : \A e \in hits : e <= d].name

\* lines 379-381 without the fallback
GroupsForTableNoFallback(t2g, name) == Get(t2g, name, <<>>)

\* lines 379-381
groups_for_table(t2g, name) ==
    LET found == Get(t2g, name, <<>>)
    IN  IF found = <<>> THEN <<"Miscellaneous">> ELSE found

\* lines 374-395
BuildTableIndex ==
    /\ pc = "domains"
    /\ LET names == Range(TableNames(tables))
           DomainOf(g) == domain_by_group(domains, g, "Miscellaneous")
           description(name) == Get(table_descriptions, name, "")
       IN  /\ table_index' =
                 [name \in names |->
                     [description |-> description(name),
                      groups |-> groups_for_table(table_to_groups, name),
                      domains |->
                          SortedByOrder({DomainOf(g) :
                                            g \in Range(groups_for_table(table_to_groups, name))},
                                        LabelOrder),
                      family |-> IF Truthy(family_name(name)) THEN family_name(name)
                                 ELSE <<"">>]]
           /\ table_details' =
                 [name \in names |->
                     [description |-> description(name),
                      columns |-> LET cols == RecordOf(tables, name).columns
                                  IN  [i \in DOMAIN cols |-> parse_column(cols[i])]]]
    /\ pc' = "indexed"
    /\ UNCHANGED <<tables, groups, table_descriptions, table_to_groups, ungrouped,
                   normalized_groups, misc_subgroups, domains, explicit_relationships,
                   famVars, fuzzyVars, searchVars, runVars, colVars, ioVars, sessionVars, curatorVars>>

\* the four add_family_relationship calls, lines 414-437
FAMILY_PAIRS ==
    << [source_family |-> <<"session">>, target_family |-> <<"prescription">>,
        column |-> "prescription_id",
        note |-> "Each session corresponds to a prescription."],
       [source_family |-> <<"recording">>, target_family |-> <<"session">>,
        column |-> "session_id",
        note |-> "Each recording corresponds to a session."],
       [source_family |-> <<"parameter">>, target_family |-> <<"session">>,
        column |-> "session_id",
        note |-> "Parameter contains the last logged difficulty modulator for a session."],
       [source_family |-> <<"performance", "estimators">>,
        target_family |-> <<"difficulty", "modulators">>,
        column |-> "session_id",
        note |-> "Performance estimators inform difficulty modulator updates."] >>

\* line 403 with the source table tested alone
PairSourcePresent(pair, suffix, table_names) ==
    Append(pair.source_family, suffix) \in table_names

\* line 403
PairPresent(pair, suffix, table_names) ==
    /\ Append(pair.source_family, suffix) \in table_names
    /\ Append(pair.target_family, suffix) \in table_names

RECURSIVE add_family_relationship(_, _, _)
\* lines 399-412, with the suffixes visited in the order of suffix_order
add_family_relationship(pair, suffix_order, table_names) ==
    IF suffix_order = <<>> THEN <<>>
    ELSE (IF PairPresent(pair, suffix_order[1], table_names)
          THEN << [source |-> Append(pair.source_family, suffix_order[1]),
                   target |-> Append(pair.target_family, suffix_order[1]),
                   columns |-> <<pair.column>>,
                   type |-> "foreign_key",
                   note |-> pair.note] >>
          ELSE <<>>)
         \o add_family_relationship(pair, Tail(suffix_order), table_names)

\* the orders in which a set can be iterated
Orderings(S) == {s \in [1..Cardinality(S) -> S] : Range(s) = S}

\* line 397: explicit_relationships = list(EXPLICIT_RELATIONSHIPS)
DeclaredRelationships(table_names) == EXPLICIT_RELATIONSHIPS

\* lines 397-437 with the generated records put in front of the declared ones
GeneratedFirst(suffix_order, table_names) ==
    add_family_relationship(FAMILY_PAIRS[1], suffix_order, table_names)
    \o add_family_relationship(FAMILY_PAIRS[2], suffix_order, table_names)
    \o add_family_relationship(FAMILY_PAIRS[3], suffix_order, table_names)
    \o add_family_relationship(FAMILY_PAIRS[4], suffix_order, table_names)
    \o DeclaredRelationships(table_names)

\* lines 397-437: the declared records, then what each of the four calls
\* appends, in the order of the calls
AllRelationships(suffix_order, table_names) ==
    DeclaredRelationships(table_names)
    \o add_family_relationship(FAMILY_PAIRS[1], suffix_order, table_names)
    \o add_family_relationship(FAMILY_PAIRS[2], suffix_order, table_names)
    \o add_family_relationship(FAMILY_PAIRS[3], suffix_order, table_names)
    \o add_family_relationship(FAMILY_PAIRS[4], suffix_order, table_names)

\* lines 397-437.  `for suffix in SUFFIXES` iterates a set of str, whose order
\* is fixed within a run and not across runs (str hashes are salted): any order.
\* A suffix that no pair has both tables for emits nothing, so the orders of
\* the other suffixes are the ones that tell results apart.
BuildRelationships ==
    /\ pc = "indexed"
    /\ LET table_names == Range(TableNames(tables))
           emitting == {s \in SUFFIXES :
                           \E k \in DOMAIN FAMILY_PAIRS : PairPresent(FAMILY_PAIRS[k], s, table_names)}
       IN  \E suffix_order \in Orderings(emitting) :
               explicit_relationships' = AllRelationships(suffix_order, table_names)
    /\ pc' = "related"
    /\ UNCHANGED <<tables, groups, table_descriptions, table_to_groups, ungrouped,
                   normalized_groups, misc_subgroups, domains, table_index, table_details,
                   famVars, fuzzyVars, searchVars, runVars, colVars, ioVars, sessionVars, curatorVars>>

\* lines 439-481: the taxonomy is assembled from the values built so far and
\* written out
WriteOutput ==
    /\ pc = "related"
    /\ pc' = "done"
    /\ UNCHANGED <<buildVars, famVars, fuzzyVars, searchVars, runVars, colVars, ioVars, sessionVars, curatorVars>>

BuildInit ==
    /\ pc = "start"
    /\ tables \in TableInputs
    /\ groups \in GroupInputs
    /\ table_descriptions = <<>>
    /\ table_to_groups = <<>>
    /\ ungrouped = <<>>
    /\ normalized_groups = <<>>
    /\ misc_subgroups = <<>>
    /\ domains = <<>>
    /\ table_index = <<>>
    /\ table_details = <<>>
    /\ explicit_relationships = <<>>
    /\ FamiliesIdle
    /\ FuzzyIdle
    /\ SearchIdle
    /\ RunsIdle
    /\ ColumnsIdle
    /\ FilesIdle
    /\ SessionsIdle
    /\ CuratorIdle

Init == BuildInit

Next ==
    \/ DescribeTables
    \/ ResolveGroups
    \/ NormalizeGroups
    \/ StripAISN
    \/ BuildMiscSubgroups
    \/ BuildDomains
    \/ BuildTableIndex
    \/ BuildRelationships
    \/ WriteOutput

Spec == Init /\ [][Next]_vars

(***************************************************************************)
(* The build run a second time on the same input: SpecRuns.  Each run is   *)
(* a process of its own, `python build_taxonomy.py` (lines 484-485): it    *)
(* reads context.json again, starts from fresh locals and iterates         *)
(* SUFFIXES in the order of its own string hashes.                         *)
(***************************************************************************)
\* lines 439-452: the taxonomy written to taxonomy.json
Output ==
    [domains |-> domains,
     group_hierarchy |-> normalized_groups,
     table_index |-> table_index,
     table_details |-> table_details,
     explicit_relationships |-> explicit_relationships]

\* lines 484-485 and 205-210, the script started again once a run has written
\* its output: the file of the earlier run stays until it is overwritten
RunAgain ==
    /\ pc = "done"
    /\ previous_output = None
    /\ previous_output' = Output
    /\ pc' = "start"
    /\ table_descriptions' = <<>>
    /\ table_to_groups' = <<>>
    /\ ungrouped' = <<>>
    /\ normalized_groups' = <<>>
    /\ misc_subgroups' = <<>>
    /\ domains' = <<>>
    /\ table_index' = <<>>
    /\ table_details' = <<>>
    /\ explicit_relationships' = <<>>
    /\ UNCHANGED <<tables, groups, famVars, fuzzyVars, searchVars, colVars, ioVars, sessionVars, curatorVars>>

RunsNext == Next \/ RunAgain

SpecRuns == Init /\ [][RunsNext]_vars

(***************************************************************************)
(* Claims about the build, checked under Spec.                             *)
(***************************************************************************)
Resolved == pc \notin {"start", "described"}

Stripped == pc \in {"stripped", "bucketed", "domains", "indexed", "related", "done"}

DomainsBuilt == pc \in {"domains", "indexed", "related", "done"}

\* C1: when the build is done, every record of explicit_relationships, declared
\* or generated, has its source and its target among the keys of table_index.
C1_EndpointsExist ==
    pc = "done" =>
        \A i \in DOMAIN explicit_relationships :
            /\ explicit_relationships[i].source \in DOMAIN table_index
            /\ explicit_relationships[i].target \in DOMAIN table_index

\* C2 as stated: every table has at least one group in table_index, and its
\* groups are ["Miscellaneous"] exactly when its resolved group set is empty.
C2_MiscIffEmpty ==
    pc = "done" =>
        \A t \in DOMAIN table_index :
            /\ Len(table_index[t].groups) >= 1
            /\ table_index[t].groups = <<"Miscellaneous">> <=> table_to_groups[t] = <<>>

\* C2 as amended: every table has at least one group in table_index, and its
\* groups are ["Miscellaneous"] exactly when its resolved group set is empty or
\* is {"Miscellaneous"} itself (the table declares that group).
C2_AtLeastOneGroup ==
    pc = "done" =>
        /\ DOMAIN table_index = Range(TableNames(tables))
        /\ \A t \in DOMAIN table_index :
            /\ Len(table_index[t].groups) >= 1
            /\ table_index[t].groups = <<"Miscellaneous">>
                  <=> table_to_groups[t] \in {<<>>, <<"Miscellaneous">>}

C2_Witness ==
    /\ pc = "done"
    /\ \E t \in DOMAIN table_index :
          table_to_groups[t] = <<>> /\ table_index[t].groups = <<"Miscellaneous">>
    /\ \E t \in DOMAIN table_index : Len(table_to_groups[t]) >= 2

\* C4: in the domains view the Miscellaneous group's own tables and
\* table_families are empty, and every other group has no subgroups.
C4_MiscOnlyThroughSubgroups ==
    DomainsBuilt =>
        \A d \in DOMAIN domains : \A k \in DOMAIN domains[d].groups :
            LET g == domains[d].groups[k]
            IN  /\ g.name = "Miscellaneous" => g.tables = <<>> /\ g.table_families = <<>>
                /\ g.name # "Miscellaneous" => g.subgroups = <<>>

C4_Witness ==
    /\ pc = "done"
    /\ \E d \in DOMAIN domains : \E k \in DOMAIN domains[d].groups :
          /\ domains[d].groups[k].name = "Miscellaneous"
          /\ Len(domains[d].groups[k].subgroups) >= 2
    /\ \E d \in DOMAIN domains : \E k \in DOMAIN domains[d].groups :
          /\ domains[d].groups[k].name # "Miscellaneous"
          /\ domains[d].groups[k].tables # <<>>

\* C8: a table that is a key of TABLE_GROUP_SET has exactly the override list
\* as its final groups, whatever groups it declares.
C8_FullReplacement ==
    \A name \in DOMAIN table_to_groups \cap DOMAIN TABLE_GROUP_SET :
        /\ Range(table_to_groups[name]) = Range(TABLE_GROUP_SET[name])
        /\ Len(table_to_groups[name]) = Cardinality(Range(TABLE_GROUP_SET[name]))
        /\ pc = "done" => table_index[name].groups = table_to_groups[name]

C8_Witness ==
    /\ pc = "done"
    /\ \E i \in DOMAIN tables :
          /\ tables[i].table \in DOMAIN TABLE_GROUP_SET
          /\ tables[i].groups # <<>>
          /\ Range(tables[i].groups) \cap Range(TABLE_GROUP_SET[tables[i].table]) = {}

\* the first part of C9: a table that is no key of TABLE_GROUP_SET has as its
\* final group list the union of its declared groups and its TABLE_GROUP_ADD
\* entries, sorted and without duplicates
C9_ResolvedIsUnion ==
    Resolved =>
        \A i \in DOMAIN tables :
            LET name == tables[i].table
            IN  name \notin DOMAIN TABLE_GROUP_SET =>
                    /\ Range(table_to_groups[name]) =
                           Range(tables[i].groups) \cup Range(Get(TABLE_GROUP_ADD, name, <<>>))
                    /\ IsSortedGroups(table_to_groups[name])

\* C9, both parts: the resolved list is that sorted union in every state, and
\* no step of the build changes the input table records.
C9_UnionSortedInputKept == [](C9_ResolvedIsUnion) /\ [][tables' = tables]_vars

C9_Witness ==
    /\ pc = "done"
    /\ \E i \in DOMAIN tables :
          /\ tables[i].table \in DOMAIN TABLE_GROUP_ADD
          /\ Range(TABLE_GROUP_ADD[tables[i].table]) \cap Range(tables[i].groups) = {}
    /\ \E i \in DOMAIN tables :
          /\ tables[i].table \notin DOMAIN TABLE_GROUP_SET
          /\ Len(tables[i].groups) >= 2
          /\ tables[i].groups # table_to_groups[tables[i].table]

\* C10: in group_hierarchy "AISN" is in the parent_groups of no group other
\* than AISN, and the other declared parents are kept, in their order.
C10_AISNNeverParent ==
    Stripped =>
        \A g \in DOMAIN normalized_groups :
            LET declared == IF g \in DOMAIN groups THEN groups[g].parent_groups ELSE <<>>
                parents == normalized_groups[g].parent_groups
                Other(p) == p # "AISN"
            IN  /\ g # "AISN" => "AISN" \notin Range(parents)
                /\ parents = IF g = "AISN" THEN declared ELSE SelectSeq(declared, Other)

C10_Witness ==
    /\ pc = "done"
    /\ \E g \in DOMAIN groups :
          /\ g # "AISN"
          /\ "AISN" \in Range(groups[g].parent_groups)
          /\ Len(normalized_groups[g].parent_groups) >= 2

\* the parents a hierarchy lists for group g (none for a name it does not hold)
ParentsOf(hierarchy, g) ==
    IF g \in DOMAIN hierarchy THEN Range(hierarchy[g].parent_groups) ELSE {}

RECURSIVE AncestorsFrom(_, _)
\* the groups of S and the groups reached from them through parent_groups
AncestorsFrom(hierarchy, S) ==
    LET next == S \cup UNION {ParentsOf(hierarchy, g) : g \in S}
    IN  IF next = S THEN S ELSE AncestorsFrom(hierarchy, next)

\* the parents of g, their parents, and so on
Ancestors(hierarchy, g) == AncestorsFrom(hierarchy, ParentsOf(hierarchy, g))

\* C11: in the group_hierarchy written out no group is its own ancestor
\* through parent_groups, whatever metadata the input declares.
C11_NoGroupIsOwnAncestor ==
    pc = "done" =>
        \A g \in DOMAIN normalized_groups : g \notin Ancestors(normalized_groups, g)

\* what the build does keep: a group that is its own ancestor in the output
\* is already its own ancestor in the declared metadata
C11_NoCycleIntroduced ==
    pc = "done" =>
        \A g \in DOMAIN normalized_groups :
            g \in Ancestors(normalized_groups, g) => g \in Ancestors(groups, g)

Bucketed == pc \in {"bucketed", "domains", "indexed", "related", "done"}

\* the fixed allow-list of table names of each named Miscellaneous subgroup
MiscAllowLists ==
    ("Metrics and Monitoring" :> {<<"metric", "app">>, <<"metric", "plus">>})
    @@ ("Clinical and Data Sources" :>
            {<<"clinical", "data">>, <<"prediction", "data", "source", "clinical">>})
    @@ ("Device and Telemetry" :>
            {<<"device", "cloud", "messaging">>, <<"station">>, <<"control", "plus">>,
             <<"reference", "date", "wear">>})
    @@ ("Codes and Reference" :> {<<"code">>, <<"code", "redemption">>, <<"tree">>})
    @@ ("Prescription Support" :> {<<"prescription", "change", "reason">>})

\* the subgroup a table name belongs to by the allow-lists
ExpectedSubgroup(t) ==
    IF \E b \in DOMAIN MiscAllowLists : t \in MiscAllowLists[b]
    THEN CHOOSE b \in DOMAIN MiscAllowLists : t \in MiscAllowLists[b]
    ELSE "Other"

\* where table t is listed in misc_subgroups: (subgroup, position)
SubgroupPlaces(t) ==
    UNION { { <<b, i>> : i \in {j \in DOMAIN misc_subgroups[b] : misc_subgroups[b][j] = t} } :
            b \in DOMAIN misc_subgroups }

\* the subgroups the domains view shows under the Miscellaneous group
MiscSubgroupViews ==
    UNION { { domains[d].groups[k].subgroups :
                k \in {j \in DOMAIN domains[d].groups :
                          domains[d].groups[j].name = "Miscellaneous"} } :
            d \in DOMAIN domains }

\* where table t is listed in a sequence of subgroup views: among the
\* standalone tables (subgroup, 0, position) or among the variants of a family
\* (subgroup, family position, position)
ViewPlaces(views, t) ==
    UNION { { <<views[v].name, 0, i>> :
                i \in {j \in DOMAIN views[v].tables : views[v].tables[j].table = t} }
            \cup UNION { { <<views[v].name, f, i>> :
                            i \in {j \in DOMAIN views[v].table_families[f].variants :
                                      views[v].table_families[f].variants[j] = t} } :
                         f \in DOMAIN views[v].table_families } :
            v \in DOMAIN views }

\* C12: every ungrouped table is in exactly one Miscellaneous subgroup, the one
\* its name has by the allow-lists ("Other" for a name on no list), once; a
\* grouped table is in none; every subgroup's member list is sorted; and the
\* subgroups shown under Miscellaneous in the domains view list the same
\* members, each ungrouped table once, in sorted lists.
C12_UngroupedInOneSubgroup ==
    /\ Bucketed =>
          /\ \A t \in DOMAIN table_to_groups :
                IF table_to_groups[t] = <<>>
                THEN \E i \in 1..Len(ungrouped) :
                        SubgroupPlaces(t) = {<<ExpectedSubgroup(t), i>>}
                ELSE SubgroupPlaces(t) = {}
          /\ \A b \in DOMAIN misc_subgroups :
                /\ misc_subgroups[b] # <<>>
                /\ IsSortedNames(misc_subgroups[b])
    /\ DomainsBuilt =>
          \A views \in MiscSubgroupViews :
             /\ \A t \in DOMAIN table_to_groups :
                   IF table_to_groups[t] = <<>>
                   THEN /\ Cardinality(ViewPlaces(views, t)) = 1
                        /\ \A p \in ViewPlaces(views, t) : p[1] = ExpectedSubgroup(t)
                   ELSE ViewPlaces(views, t) = {}
             /\ \A v \in DOMAIN views :
                   /\ IsSortedNames([i \in DOMAIN views[v].tables |->
                                        views[v].tables[i].table])
                   /\ \A f \in DOMAIN views[v].table_families :
                         IsSortedNames(views[v].table_families[f].variants)

\* C12's case: two ungrouped tables of one subgroup are listed in the input in
\* the other order than the sorted one, a third is on an allow-list, a fourth
\* table has a group, and the view shows the subgroups.
C12_Witness ==
    /\ pc = "done"
    /\ \E b \in DOMAIN misc_subgroups :
          /\ Len(misc_subgroups[b]) >= 2
          /\ LET InBucket(t) == t \in Range(misc_subgroups[b])
             IN  SelectSeq(ungrouped, InBucket) # misc_subgroups[b]
    /\ \E b \in DOMAIN misc_subgroups : b # "Other"
    /\ \E t \in DOMAIN table_to_groups : table_to_groups[t] # <<>>
    /\ \E views \in MiscSubgroupViews : Len(views) >= 2

Related == pc \in {"related", "done"}

\* the relationship a family pair generates for a suffix
GeneratedRecord(pair, suffix) ==
    [source |-> Append(pair.source_family, suffix),
     target |-> Append(pair.target_family, suffix),
     columns |-> <<pair.column>>,
     type |-> "foreign_key",
     note |-> pair.note]

\* the positions of explicit_relationships that hold a record from source to target
PositionsOf(source, target) ==
    {i \in DOMAIN explicit_relationships :
        /\ explicit_relationships[i].source = source
        /\ explicit_relationships[i].target = target}

\* the (pair, suffix) combinations whose two tables are both input tables
PresentPairs ==
    {ps \in (DOMAIN FAMILY_PAIRS) \X SUFFIXES :
        /\ Append(FAMILY_PAIRS[ps[1]].source_family, ps[2]) \in DOMAIN table_index
        /\ Append(FAMILY_PAIRS[ps[1]].target_family, ps[2]) \in DOMAIN table_index}

\* the example of the claim: the app and clinic variants of session and
\* prescription are the input tables
SessionPrescriptionExample ==
    DOMAIN table_index =
        {<<"session", "app">>, <<"session", "clinic">>,
         <<"prescription", "app">>, <<"prescription", "clinic">>}

\* C13: for each of the four family pairs and each suffix of SUFFIXES the
\* output holds exactly one relationship source_family_suffix ->
\* target_family_suffix, a foreign_key with the pair's column and note, if both
\* tables are input tables, and none otherwise; nothing else is generated.
\* With session_app, session_clinic, prescription_app and prescription_clinic
\* the generated relationships are the two of the pair (session, prescription).
C13_OnePerPresentPair ==
    Related =>
        /\ \A k \in DOMAIN FAMILY_PAIRS : \A suffix \in SUFFIXES :
              LET r == GeneratedRecord(FAMILY_PAIRS[k], suffix)
                  at == PositionsOf(r.source, r.target)
              IN  /\ <<k, suffix>> \in PresentPairs => Cardinality(at) = 1
                  /\ <<k, suffix>> \notin PresentPairs => at = {}
                  /\ \A i \in at : explicit_relationships[i] = r
        /\ Len(explicit_relationships) =
              Len(EXPLICIT_RELATIONSHIPS) + Cardinality(PresentPairs)
        /\ SessionPrescriptionExample =>
              /\ Len(explicit_relationships) = Len(EXPLICIT_RELATIONSHIPS) + 2
              /\ PositionsOf(<<"session", "app">>, <<"prescription", "app">>) # {}
              /\ PositionsOf(<<"session", "clinic">>, <<"prescription", "clinic">>) # {}

\* C13's case: the example of the claim, built to the end
C13_Witness ==
    /\ pc = "done"
    /\ SessionPrescriptionExample
    /\ Cardinality(PresentPairs) = 2

\* the number of the add_family_relationship call a record comes from, in the
\* order of the calls; 0 for a record no call generates
CallOf(r) ==
    LET calls == {k \in DOMAIN FAMILY_PAIRS :
                     \E suffix \in SUFFIXES : r = GeneratedRecord(FAMILY_PAIRS[k], suffix)}
    IN  IF calls = {} THEN 0 ELSE CHOOSE k \in calls : TRUE

\* C14: explicit_relationships starts with the declared relationships, all of
\* them and in their order; the generated ones follow, those of an earlier
\* add_family_relationship call before those of a later one; and the sequence
\* is as long as the declared and the generated records together (no record is
\* dropped as a duplicate).
C14_DeclaredThenGeneratedInCallOrder ==
    Related =>
        /\ Len(explicit_relationships) >= Len(EXPLICIT_RELATIONSHIPS)
        /\ SubSeq(explicit_relationships, 1, Len(EXPLICIT_RELATIONSHIPS)) =
              EXPLICIT_RELATIONSHIPS
        /\ \A i \in DOMAIN explicit_relationships :
              i > Len(EXPLICIT_RELATIONSHIPS) => CallOf(explicit_relationships[i]) > 0
        /\ \A i, j \in DOMAIN explicit_relationships :
              (Len(EXPLICIT_RELATIONSHIPS) < i /\ i < j) =>
                  CallOf(explicit_relationships[i]) <= CallOf(explicit_relationships[j])
        /\ Len(explicit_relationships) =
              Len(EXPLICIT_RELATIONSHIPS) + Cardinality(PresentPairs)

\* C14's case: two different calls have generated records
C14_Witness ==
    /\ pc = "done"
    /\ \E i, j \in DOMAIN explicit_relationships :
          /\ Len(EXPLICIT_RELATIONSHIPS) < i
          /\ i < j
          /\ CallOf(explicit_relationships[i]) < CallOf(explicit_relationships[j])

\* C15: a second run of the build on the same input writes the output the
\* first run wrote, the order of explicit_relationships included.
C15_SecondRunSameOutput ==
    (pc = "done" /\ previous_output # None) => Output = previous_output

\* what two runs do have in common: everything but the order of the
\* generated relationships
C15_SameUpToRelationshipOrder ==
    (pc = "done" /\ previous_output # None) =>
        /\ [Output EXCEPT !.explicit_relationships = <<>>] =
              [previous_output EXCEPT !.explicit_relationships = <<>>]
        /\ Len(explicit_relationships) = Len(previous_output.explicit_relationships)
        /\ Range(explicit_relationships) = Range(previous_output.explicit_relationships)

\* the base name of a table that ends in a recognised suffix
HasBase(table) == Len(table) > 1 /\ table[Len(table)] \in SUFFIXES

BaseOf(table) == SubSeq(table, 1, Len(table) - 1)

\* the description the input gives for a table
SourceDescription(name) == RecordOf(tables, name).description

PerTableOverridden(name) == name \in DOMAIN TABLE_DESCRIPTION_OVERRIDES

FamilyOverridden(name) ==
    HasBase(name) /\ BaseOf(name) \in DOMAIN FAMILY_DESCRIPTION_OVERRIDES

HasSibling(name) ==
    /\ HasBase(name)
    /\ \E other \in Range(TableNames(tables)) :
          other # name /\ HasBase(other) /\ BaseOf(other) = BaseOf(name)

\* C17: the family field of a table is its base name only when the table ends
\* in a recognised suffix and another input table shares the base name; it is
\* the empty string for a table with a suffix and no sibling.
C17_FamilyFieldOnlyWithSibling ==
    pc = "done" =>
        \A name \in DOMAIN table_index :
            table_index[name].family =
                IF HasSibling(name) THEN BaseOf(name) ELSE <<"">>

\* what the field holds: the base name of every table that ends in a
\* recognised suffix, sibling or not
C17_FamilyFieldIsBaseName ==
    pc = "done" =>
        \A name \in DOMAIN table_index :
            table_index[name].family =
                IF HasBase(name) THEN BaseOf(name) ELSE <<"">>

\* the domains of the output that list a group
DomainsOfGroup(g) ==
    {d \in DOMAIN domains : \E k \in DOMAIN domains[d].groups : domains[d].groups[k].name = g}

\* C18: every group of the output group_hierarchy, declared, canonical or
\* synthesized from the membership of a table, is in exactly one domain of
\* the output.
C18_EveryGroupInOneDomain ==
    pc = "done" =>
        \A g \in DOMAIN normalized_groups : Cardinality(DomainsOfGroup(g)) = 1

\* the groups of the static mapping
MappedGroups ==
    UNION {Range(DOMAIN_GROUPS[d].groups) : d \in DOMAIN DOMAIN_GROUPS}

\* what does hold: no group is in two domains, and the groups in a domain are
\* the groups of the static mapping, in the hierarchy or not
C18_MappedGroupsInOneDomain ==
    pc = "done" =>
        /\ \A g \in DOMAIN normalized_groups : Cardinality(DomainsOfGroup(g)) <= 1
        /\ \A g \in DOMAIN normalized_groups \cup MappedGroups :
              (Cardinality(DomainsOfGroup(g)) = 1) <=> (g \in MappedGroups)

\* C19: a group with a canonical description has it as its description in
\* the output group_hierarchy, also when the input declares another one.
C19_CanonicalDescriptionInHierarchy ==
    pc = "done" =>
        \A g \in DOMAIN normalized_groups \cap DOMAIN GROUP_DESCRIPTIONS :
            normalized_groups[g].description = GROUP_DESCRIPTIONS[g]

\* where the canonical description does win: in the hierarchy for the groups
\* the input does not declare, and in the group views of the domains; a
\* declared group keeps the description of the input in the hierarchy
C19_CanonicalWinsInDomainsOnly ==
    pc = "done" =>
        /\ \A g \in DOMAIN normalized_groups \cap DOMAIN GROUP_DESCRIPTIONS :
              normalized_groups[g].description =
                  IF g \in DOMAIN groups THEN groups[g].description
                  ELSE GROUP_DESCRIPTIONS[g]
        /\ \A d \in DOMAIN domains : \A k \in DOMAIN domains[d].groups :
              domains[d].groups[k].name \in DOMAIN GROUP_DESCRIPTIONS =>
                  domains[d].groups[k].description =
                      GROUP_DESCRIPTIONS[domains[d].groups[k].name]

\* table t is listed by a group or subgroup view, as a standalone table or
\* as a variant of a family
ListedBy(view, t) ==
    \/ \E i \in DOMAIN view.tables : view.tables[i].table = t
    \/ \E f \in DOMAIN view.table_families :
          t \in Range(view.table_families[f].variants)

\* table t is somewhere in the domains view
InDomainsView(t) ==
    \E d \in DOMAIN domains : \E k \in DOMAIN domains[d].groups :
        \/ ListedBy(domains[d].groups[k], t)
        \/ \E j \in DOMAIN domains[d].groups[k].subgroups :
              ListedBy(domains[d].groups[k].subgroups[j], t)

\* C26: every input table is in the domains view at least once, as a
\* standalone table or a family variant of a group or of a Miscellaneous
\* subgroup, also a table of groups outside DOMAIN_GROUPS and a table that
\* declares the group "Miscellaneous".
C26_EveryTableInDomainsView ==
    pc = "done" => \A t \in Range(TableNames(tables)) : InDomainsView(t)

\* the tables the view does show: the ungrouped ones, and the ones with a
\* group of DOMAIN_GROUPS other than Miscellaneous
C26_ShownIffUngroupedOrMapped ==
    pc = "done" =>
        \A t \in Range(TableNames(tables)) :
            InDomainsView(t) <=>
                \/ table_to_groups[t] = <<>>
                \/ \E g \in Range(table_to_groups[t]) :
                      g \in MappedGroups /\ g # "Miscellaneous"

\* C27: table_index and group_hierarchy agree on membership: g is in
\* table_index[t].groups exactly when t is in group_hierarchy[g].tables,
\* Miscellaneous holding exactly the tables whose groups in table_index are
\* ["Miscellaneous"].
C27_IndexAndHierarchyAgree ==
    pc = "done" =>
        \A t \in DOMAIN table_index : \A g \in DOMAIN normalized_groups :
            (g \in Range(table_index[t].groups)) <=>
                (t \in Range(normalized_groups[g].tables))

\* where the two do agree: on every group other than Miscellaneous; the
\* Miscellaneous of group_hierarchy holds the ungrouped tables only, and
\* not the tables that declare it
C27_AgreeExceptDeclaredMiscellaneous ==
    pc = "done" =>
        \A t \in DOMAIN table_index : \A g \in DOMAIN normalized_groups :
            IF g = "Miscellaneous"
            THEN (t \in Range(normalized_groups[g].tables)) <=>
                    table_to_groups[t] = <<>>
            ELSE (g \in Range(table_index[t].groups)) <=>
                    (t \in Range(normalized_groups[g].tables))

(***************************************************************************)
(* build_families() on its own: SpecFamilies.                              *)
(***************************************************************************)
\* the table names build_families is given; a list names each table once
FamilyNames ==
    {<<"x", "app">>, <<"x", "web">>, <<"y", "app">>, <<"x", "y", "web">>,
     <<"", "app">>, <<"", "web">>, <<"app">>, <<"x">>}

FamiliesInit ==
    /\ pc = "families"
    /\ fam_in \in {s \in SeqsUpTo(FamilyNames, MaxFamInput) : IsInjective(s)}
    /\ fam_out = <<>>
    /\ BuildIdle
    /\ FuzzyIdle
    /\ SearchIdle
    /\ RunsIdle
    /\ ColumnsIdle
    /\ FilesIdle
    /\ SessionsIdle
    /\ CuratorIdle

\* lines 189-202
CallBuildFamilies ==
    /\ pc = "families"
    /\ fam_out' = build_families(fam_in)
    /\ pc' = "families_done"
    /\ UNCHANGED <<buildVars, fam_in, fuzzyVars, searchVars, runVars, colVars, ioVars, sessionVars, curatorVars>>

SpecFamilies == FamiliesInit /\ [][CallBuildFamilies]_vars

\* table = b + "_" + suffix for a suffix of SUFFIXES
Decomposes(table, b) == \E suffix \in SUFFIXES : table = Append(b, suffix)

\* the entries of fam_in that decompose over base b, in the order given
VariantsOf(b) == LET IsVariant(t) == Decomposes(t, b) IN SelectSeq(fam_in, IsVariant)

SameBag(s, t) ==
    /\ Len(s) = Len(t)
    /\ \A x \in Range(s) \cup Range(t) :
          Cardinality({i \in DOMAIN s : s[i] = x}) = Cardinality({i \in DOMAIN t : t[i] = x})

FamilyBases == {SubSeq(t, 1, Len(t) - 1) : t \in {n \in FamilyNames : Len(n) >= 2}}

\* C3: build_families returns an entry for base name b if and only if at least
\* two tables of the input are b + "_" + suffix with a suffix of SUFFIXES, and
\* the entry lists exactly those tables in lexicographic order.
C3_FamilyIffTwoVariants ==
    pc = "families_done" =>
        \A b \in FamilyBases \cup DOMAIN fam_out :
            /\ b \in DOMAIN fam_out <=> Len(VariantsOf(b)) >= 2
            /\ b \in DOMAIN fam_out =>
                  SameBag(fam_out[b], VariantsOf(b)) /\ IsSortedNames(fam_out[b])

\* the same for the base names that are not the empty string
C3_NonEmptyBases ==
    pc = "families_done" =>
        \A b \in (FamilyBases \cup DOMAIN fam_out) \ {<<"">>} :
            /\ b \in DOMAIN fam_out <=> Len(VariantsOf(b)) >= 2
            /\ b \in DOMAIN fam_out =>
                  SameBag(fam_out[b], VariantsOf(b)) /\ IsSortedNames(fam_out[b])

(***************************************************************************)
(* Fuzzy search, scripts/taxonomy_browser.py.  Scores are exact fractions  *)
(* in lowest terms; the floats of the code are their correctly rounded     *)
(* quotients, which compare as the fractions do.                           *)
(***************************************************************************)
RECURSIVE GCD(_, _)
GCD(a, b) == IF b = 0 THEN a ELSE GCD(b, a % b)

Frac(n, d) == LET g == GCD(n, d) IN [num |-> n \div g, den |-> d \div g]

Zero == Frac(0, 1)

One == Frac(1, 1)

FracLeq(x, y) == x.num * y.den <= y.num * x.den

FracLess(x, y) == x.num * y.den < y.num * x.den

\* max(x, y)
FracMax(x, y) == IF FracLeq(y, x) THEN x ELSE y

LowerLetters ==
    <<"a", "b", "c", "d", "e", "f", "g", "h", "i", "j", "k", "l", "m",
      "n", "o", "p", "q", "r", "s", "t", "u", "v", "w", "x", "y", "z">>

UpperLetters ==
    <<"A", "B", "C", "D", "E", "F", "G", "H", "I", "J", "K", "L", "M",
      "N", "O", "P", "Q", "R", "S", "T", "U", "V", "W", "X", "Y", "Z">>

Digits == {"0", "1", "2", "3", "4", "5", "6", "7", "8", "9"}

\* str.lower(), one character
Lower(c) ==
    IF c \in Range(UpperLetters)
    THEN LowerLetters[CHOOSE i \in DOMAIN UpperLetters : UpperLetters[i] = c]
    ELSE c

\* text.lower()
LowerText(text) == [i \in DOMAIN text |-> Lower(text[i])]

\* the class [a-z0-9]
IsAlnum(c) == c \in Range(LowerLetters) \cup Digits

RECURSIVE CollapseRuns(_)
\* re.sub(r"[^a-z0-9]+", " ", s): every run of other characters becomes one space
CollapseRuns(s) ==
    IF s = <<>> THEN <<>>
    ELSE IF IsAlnum(s[1]) THEN <<s[1]>> \o CollapseRuns(Tail(s))
    ELSE LET NotAlnum(c) == ~IsAlnum(c)
         IN  <<" ">> \o CollapseRuns(lstrip(Tail(s), {c \in Range(s) : NotAlnum(c)}))

\* line 56 without .lower()
NormalizeNoLower(text) == strip(CollapseRuns(text))

\* lines 55-56
normalize(text) == strip(CollapseRuns(LowerText(text)))

\* lines 59-60
compact(text) == SelectSeq(LowerText(text), IsAlnum)

RECURSIVE split(_)
\* str.split(): the list of the maximal runs of non-space characters
split(s) ==
    LET t == lstrip(s, {" "})
    IN  IF t = <<>> THEN <<>>
        ELSE LET sp == Find(t, <<" ">>)
             IN  IF sp = 0 THEN <<t>>
                 ELSE <<SubSeq(t, 1, sp - 1)>> \o split(SubSeq(t, sp + 1, Len(t)))

(***************************************************************************)
(* difflib.SequenceMatcher(None, a, b).ratio().  The texts of the model    *)
(* are shorter than 200 characters, where autojunk does nothing.           *)
(***************************************************************************)
RECURSIVE MatchLen(_, _, _, _, _, _)
\* the length of the longest common run starting at a[i], b[j] below ahi, bhi
MatchLen(a, b, i, j, ahi, bhi) ==
    IF i < ahi /\ j < bhi /\ a[i] = b[j] THEN 1 + MatchLen(a, b, i + 1, j + 1, ahi, bhi) ELSE 0

\* find_longest_match(alo, ahi, blo, bhi): the longest block, of those the
\* one starting earliest in a, of those the one starting earliest in b
\* (positions from 1, ahi and bhi excluded)
find_longest_match(a, b, alo, ahi, blo, bhi) ==
    LET size(i, j) == MatchLen(a, b, i, j, ahi, bhi)
        cells == (alo..(ahi - 1)) \X (blo..(bhi - 1))
        best == IF cells = {} THEN 0
                ELSE LET c == CHOOSE c \in cells :
                                 \A e \in cells : size(e[1], e[2]) <= size(c[1], c[2])
                     IN  size(c[1], c[2])
        starts == {c \in cells : size(c[1], c[2]) = best}
    IN  IF best = 0 THEN [i |-> alo, j |-> blo, size |-> 0]
        ELSE LET c == CHOOSE c \in starts :
                         \A e \in starts : c[1] < e[1] \/ (c[1] = e[1] /\ c[2] <= e[2])
             IN  [i |-> c[1], j |-> c[2], size |-> best]

RECURSIVE matching_size(_, _, _, _, _, _)
\* get_matching_blocks(): the total size of the blocks found in a[alo:ahi], b[blo:bhi]
matching_size(a, b, alo, ahi, blo, bhi) ==
    LET m == find_longest_match(a, b, alo, ahi, blo, bhi)
    IN  IF m.size = 0 THEN 0
        ELSE m.size
             + (IF alo < m.i /\ blo < m.j
                THEN matching_size(a, b, alo, m.i, blo, m.j) ELSE 0)
             + (IF m.i + m.size < ahi /\ m.j + m.size < bhi
                THEN matching_size(a, b, m.i + m.size, ahi, m.j + m.size, bhi) ELSE 0)

\* ratio(): 2.0 * matches / (len(a) + len(b)), 1.0 for two empty sequences
ratio(a, b) ==
    IF Len(a) + Len(b) = 0 THEN One
    ELSE Frac(2 * matching_size(a, b, 1, Len(a) + 1, 1, Len(b) + 1), Len(a) + Len(b))

\* line 75 without the overlap signal
OverlapIgnored(q_norm, t_norm) == Zero

\* lines 72-74
\* token_overlap over the lists of tokens instead of the sets: a token the
\* query repeats counts each time
TokenOverlapCountingRepeats(q_norm, t_norm) ==
    LET q_list == split(q_norm)
        t_tokens == Range(split(t_norm))
    IN  Frac(Cardinality({k \in DOMAIN q_list : q_list[k] \in t_tokens}),
             Max2(1, Len(q_list)))

token_overlap(q_norm, t_norm) ==
    LET q_tokens == Range(split(q_norm))
        t_tokens == Range(split(t_norm))
    IN  Frac(Cardinality(q_tokens \cap t_tokens), Max2(1, Cardinality(q_tokens)))

\* fuzzy_score without the test of lines 68-69 on the normalized strings
FuzzyScoreNoGuard(query, text) ==
    IF query = <<>> \/ text = <<>> THEN Zero
    ELSE LET q_norm == normalize(query)
             t_norm == normalize(text)
         IN  FracMax(FracMax(ratio(q_norm, t_norm),
                             ratio(compact(query), compact(text))),
                     token_overlap(q_norm, t_norm))

\* lines 63-75
fuzzy_score(query, text) ==
    IF query = <<>> \/ text = <<>> THEN Zero
    ELSE LET q_norm == normalize(query)
             t_norm == normalize(text)
         IN  IF q_norm = <<>> \/ t_norm = <<>> THEN Zero
             ELSE FracMax(FracMax(ratio(q_norm, t_norm),
                                  ratio(compact(query), compact(text))),
                          token_overlap(q_norm, t_norm))

(***************************************************************************)
(* fuzzy_score() on its own: SpecFuzzy.                                    *)
(***************************************************************************)
\* the characters of the queries and texts: a letter, a capital, a separator
FuzzyAlphabet == {"a", "B", "_", " "}

FuzzyInit ==
    /\ pc = "fuzzy"
    /\ fz_query \in SeqsUpTo(FuzzyAlphabet, MaxLen)
    /\ fz_text \in SeqsUpTo(FuzzyAlphabet, MaxLen)
    /\ fz_score = None
    /\ fz_score_ext = None
    /\ fz_score_self = None
    /\ FamiliesIdle
    /\ BuildIdle
    /\ SearchIdle
    /\ RunsIdle
    /\ ColumnsIdle
    /\ FilesIdle
    /\ SessionsIdle
    /\ CuratorIdle

\* fuzzy_score applied to (query, text), (query, text + " " + query), (query, query)
CallFuzzyScore ==
    /\ pc = "fuzzy"
    /\ fz_score' = fuzzy_score(fz_query, fz_text)
    /\ fz_score_ext' = fuzzy_score(fz_query, fz_text \o <<" ">> \o fz_query)
    /\ fz_score_self' = fuzzy_score(fz_query, fz_query)
    /\ pc' = "fuzzy_done"
    /\ UNCHANGED <<buildVars, famVars, fz_query, fz_text, searchVars, runVars, colVars, ioVars, sessionVars, curatorVars>>

SpecFuzzy == FuzzyInit /\ [][CallFuzzyScore]_vars

\* the query has a character of [a-z0-9] once lower-cased
HasAlnum(text) == \E i \in DOMAIN text : IsAlnum(Lower(text[i]))

\* C6 as stated: fuzzy_score(q, q) is 1.0 for every query q.
C6_SelfScoreIsOne == pc = "fuzzy_done" => fz_score_self = One

\* C6 as amended: fuzzy_score(q, q) is 1.0 for every query q that holds at
\* least one letter or digit (its normalization is not empty), and 0.0 for
\* the empty query and the queries of separators only.
C6_SelfScoreOneIfAlnum ==
    pc = "fuzzy_done" =>
        fz_score_self = IF HasAlnum(fz_query) THEN One ELSE Zero

C6_Witness ==
    /\ pc = "fuzzy_done"
    /\ fz_score_self = One
    /\ Len(fz_query) >= 3
    /\ "B" \in Range(fz_query)
    /\ "_" \in Range(fz_query)

\* C7: appending the query to the text never lowers the score:
\* fuzzy_score(q, t + " " + q) >= fuzzy_score(q, t).
C7_RepeatingQueryNeverLowers == pc = "fuzzy_done" => FracLeq(fz_score, fz_score_ext)

C7_Witness ==
    /\ pc = "fuzzy_done"
    /\ fz_text # <<>>
    /\ FracLess(Zero, fz_score)
    /\ FracLess(fz_score, fz_score_ext)

\* a string that is empty, of whitespace only, or without a letter or digit
Blank(text) == ~HasAlnum(text)

\* C20: fuzzy_score returns a score for every pair of strings: exactly 0.0
\* when the query or the text is empty, whitespace-only or without any
\* letter or digit, and a value of [0, 1] for every other pair.
C20_BlankScoresZeroElseInUnitInterval ==
    pc = "fuzzy_done" =>
        /\ fz_score # None
        /\ (Blank(fz_query) \/ Blank(fz_text)) => fz_score = Zero
        /\ FracLeq(Zero, fz_score)
        /\ FracLeq(fz_score, One)

\* a query of whitespace only and a text of separators only: both are not
\* empty, both normalize to the empty string, and the score is 0.0
C20_Witness ==
    /\ pc = "fuzzy_done"
    /\ Range(fz_query) = {" "}
    /\ fz_text # <<>>
    /\ Range(fz_text) \subseteq {"_", " "}
    /\ "_" \in Range(fz_text)
    /\ fz_score = Zero

(***************************************************************************)
(* taxonomy_browser.py, the Search tab (lines 541-578).  The index is the  *)
(* table_index of taxonomy.json in the order of the file, each entry with  *)
(* the table's name, description and groups as texts; table_details gives  *)
(* the parsed columns of every table.                                      *)
(***************************************************************************)

\* line 569: results[:15]
MaxResults == 15

\* line 563: column_hits[:3]
MaxColumnHits == 3

\* line 562: if score >= 0.35
TableThreshold == Frac(7, 20)

\* line 557: if score >= 0.4
ColumnThreshold == Frac(2, 5)

\* seq[:n]
Prefix(seq, n) == SubSeq(seq, 1, IF Len(seq) < n THEN Len(seq) ELSE n)

\* " ".join(info.get("groups", [])), line 551
RECURSIVE JoinSpace(_)
JoinSpace(texts) ==
    IF texts = <<>> THEN <<>>
    ELSE IF Len(texts) = 1 THEN texts[1]
    ELSE texts[1] \o <<" ">> \o JoinSpace(Tail(texts))

\* list.sort(key=score) of lines 559 and 564 without reverse: a stable
\* insertion in ascending order of score
RECURSIVE InsertAscending(_, _)
InsertAscending(sortedSeq, item) ==
    IF sortedSeq = <<>> THEN <<item>>
    ELSE LET last == sortedSeq[Len(sortedSeq)]
         IN  IF FracLeq(last.score, item.score) THEN Append(sortedSeq, item)
             ELSE Append(InsertAscending(SubSeq(sortedSeq, 1, Len(sortedSeq) - 1),
                                         item),
                         last)

RECURSIVE SortAscending(_)
SortAscending(seq) ==
    IF seq = <<>> THEN <<>>
    ELSE InsertAscending(SortAscending(SubSeq(seq, 1, Len(seq) - 1)),
                         seq[Len(seq)])

\* list.sort(reverse=True, key=score), lines 559 and 564: descending by
\* score, entries of equal score keep their order (the sort is stable)
RECURSIVE InsertDescending(_, _)
InsertDescending(sortedSeq, item) ==
    IF sortedSeq = <<>> THEN <<item>>
    ELSE LET last == sortedSeq[Len(sortedSeq)]
         IN  IF FracLeq(item.score, last.score) THEN Append(sortedSeq, item)
             ELSE Append(InsertDescending(SubSeq(sortedSeq, 1, Len(sortedSeq) - 1),
                                          item),
                         last)

RECURSIVE SortDescending(_)
SortDescending(seq) ==
    IF seq = <<>> THEN <<>>
    ELSE InsertDescending(SortDescending(SubSeq(seq, 1, Len(seq) - 1)),
                          seq[Len(seq)])

\* lines 548-552: the best of the scores against name, description, groups
base_score(q, info) ==
    FracMax(fuzzy_score(q, info.name),
            FracMax(fuzzy_score(q, info.description),
                    fuzzy_score(q, JoinSpace(info.groups))))

\* line 555: f"{name} {description}"
col_text(col) == col.name \o <<" ">> \o col.description

\* lines 555-558: the tuple a column is listed with when it is a hit
ColumnHit(q, col) ==
    [score |-> fuzzy_score(q, col_text(col)), name |-> col.name,
     description |-> col.description]

\* lines 553-558 with the tables' threshold, 0.35, as the test of line 557
ColumnHitsFromTableThreshold(q, columns) ==
    LET IsHit(hit) == FracLeq(TableThreshold, hit.score)
    IN  SelectSeq([k \in DOMAIN columns |-> ColumnHit(q, columns[k])], IsHit)

\* lines 553-558: the columns scoring at least 0.4, in the order of the table
ColumnHitsOf(q, columns) ==
    LET IsHit(hit) == FracLeq(ColumnThreshold, hit.score)
    IN  SelectSeq([k \in DOMAIN columns |-> ColumnHit(q, columns[k])], IsHit)

\* lines 553-558 without the sort of line 559
ColumnHitsUnsorted(q, columns) == ColumnHitsOf(q, columns)

\* lines 553-559: the column hits, best first
column_hits(q, columns) == SortDescending(ColumnHitsOf(q, columns))

\* line 554: table_details.get(table_name, {}).get("columns", [])
ColumnsOf(details, table_name) ==
    IF table_name \in DOMAIN details THEN details[table_name].columns ELSE <<>>

\* line 560
best_column_score(hits) == IF hits = <<>> THEN Zero ELSE hits[1].score

\* lines 562-563: the tuple appended for a table of that score, or None when
\* the score is under 0.35
Appended(score, table_name, hits) ==
    IF FracLeq(TableThreshold, score)
    THEN [score |-> score, table_name |-> table_name,
          hits |-> Prefix(hits, MaxColumnHits)]
    ELSE None

\* lines 561-563
Scored(base, table_name, hits) ==
    Appended(FracMax(base, best_column_score(hits)), table_name, hits)

\* lines 546-563, one turn of the loop
TableResult(q, info, details) ==
    Scored(base_score(q, info), info.name,
           column_hits(q, ColumnsOf(details, info.name)))

\* lines 545-563: the loop over table_index.items()
Retained(q, index, details) ==
    LET IsAppended(r) == r # None
    IN  SelectSeq([i \in DOMAIN index |-> TableResult(q, index[i], details)],
                  IsAppended)

\* the results list of an ascending sort
SearchResultsAscending(q, index, details) ==
    SortAscending(Retained(q, index, details))

\* lines 545-564: the results list, sorted
SearchResults(q, index, details) ==
    SortDescending(Retained(q, index, details))


\* "Miscellaneous", the group the builder gives a table without groups
MiscellaneousText ==
    <<"M", "i", "s", "c", "e", "l", "l", "a", "n", "e", "o", "u", "s">>

\* A taxonomy.json to search: for each table its table_index entry (name,
\* description, groups) and its table_details columns, in the file's order.
SearchCatalog ==
    << [name |-> <<"y", "y">>,
        description |-> <<>>,
        groups |-> <<<<"y", "y">>, <<"a", "b">>>>,
        columns |-> <<>>],
       [name |-> <<"c", "y", "b">>,
        description |-> <<" ", "B", "c", "x">>,
        groups |-> <<<<"a", "b">>>>,
        columns |-> <<>>],
       [name |-> <<"b", "_", "y", "x">>,
        description |-> <<"a", "y", "a", "y">>,
        groups |-> <<<<"a", "b">>, <<"c">>>>,
        columns |-> <<[name |-> <<"x", "_">>, description |-> <<"d", "d">>],
                      [name |-> <<"b", "c">>, description |-> <<>>],
                      [name |-> <<"b">>, description |-> <<"b", "c", "d">>],
                      [name |-> <<"c", "d", "x">>, description |-> <<"c">>],
                      [name |-> <<"d", "x", "b">>,
                       description |-> <<"a", "c">>]>>],
       [name |-> <<"z", "z", "b", "z">>,
        description |-> <<"b", "x", "y", "y">>,
        groups |-> <<<<"a", "b">>>>,
        columns |-> <<[name |-> <<"a">>, description |-> <<"d", "a", "c">>]>>],
       [name |-> <<"x", "b">>,
        description |-> <<>>,
        groups |-> <<<<"a", "b">>, <<"c", "c">>>>,
        columns |-> <<>>],
       [name |-> <<"z", "y", "c">>,
        description |-> <<"x", "a", "y", "a">>,
        groups |-> <<<<"a", "b">>>>,
        columns |-> <<[name |-> <<"a">>, description |-> <<>>],
                      [name |-> <<"d">>, description |-> <<"c">>],
                      [name |-> <<"_">>, description |-> <<>>],
                      [name |-> <<"c", "c">>, description |-> <<"d">>]>>],
       [name |-> <<"x", "_", "y">>,
        description |-> <<"b", "y", "B", "x">>,
        groups |-> <<<<"a", "b">>>>,
        columns |-> <<[name |-> <<"d", "c">>, description |-> <<"c">>],
                      [name |-> <<"d">>, description |-> <<"a", "d">>]>>],
       [name |-> <<"y", "z", "b", "a">>,
        description |-> <<"z", "y", " ", "a", "a">>,
        groups |-> <<<<"a", "b">>>>,
        columns |-> <<[name |-> <<"a", "c", "c">>, description |-> <<"c">>],
                      [name |-> <<"b", "c">>, description |-> <<"c">>],
                      [name |-> <<"x", "c">>, description |-> <<"d", "a">>],
                      [name |-> <<"x">>, description |-> <<"c">>],
                      [name |-> <<"b", "_", "c">>, description |-> <<"c">>]>>],
       [name |-> <<"z", "x">>,
        description |-> <<"z", "x">>,
        groups |-> <<<<"a", "b">>>>,
        columns |-> <<[name |-> <<"b", "a">>, description |-> <<"b">>],
                      [name |-> <<"c", "b">>, description |-> <<>>],
                      [name |-> <<"x">>, description |-> <<"c">>],
                      [name |-> <<"b", "c", "c">>, description |-> <<>>],
                      [name |-> <<"c", "x", "b">>,
                       description |-> <<"c", " ", "c">>]>>],
       [name |-> <<"c", "z", "x">>,
        description |-> <<"c", "x", "a">>,
        groups |-> <<<<"a", "b">>>>,
        columns |-> <<[name |-> <<"x", "x">>, description |-> <<"b", "a">>]>>],
       [name |-> <<"x", "_", "_", "z">>,
        description |-> <<"x", "b">>,
        groups |-> <<<<"a", "b">>>>,
        columns |-> <<[name |-> <<"c", "a", "b">>, description |-> <<>>],
                      [name |-> <<"_">>, description |-> <<"d">>],
                      [name |-> <<"a", "a", "d">>, description |-> <<>>],
                      [name |-> <<"x">>, description |-> <<"b", "a">>],
                      [name |-> <<"x", "d", "a">>, description |-> <<>>]>>],
       [name |-> <<"x", "_", "_", "a">>,
        description |-> <<>>,
        groups |-> <<<<"a", "b">>, <<"y">>>>,
        columns |-> <<[name |-> <<"b">>, description |-> <<"b", "a">>]>>],
       [name |-> <<"d", "d">>,
        description |-> <<>>,
        groups |-> <<MiscellaneousText>>,
        columns |-> <<[name |-> <<"a", "b", "d", "d", "d", "d", "d", "d">>,
                       description |-> <<>>]>>],
       [name |-> <<"a", "_", "c">>,
        description |-> <<>>,
        groups |-> <<<<"a", "b">>, <<"c", "x">>>>,
        columns |-> <<>>],
       [name |-> <<"a", "a">>,
        description |-> <<"b", " ", "z", "c", "z">>,
        groups |-> <<<<"a", "b">>>>,
        columns |-> <<>>],
       [name |-> <<"c", "x">>,
        description |-> <<"B", "b">>,
        groups |-> <<<<"x", "x">>, <<"a", "b">>>>,
        columns |-> <<[name |-> <<"x">>, description |-> <<>>],
                      [name |-> <<"_", "d", "a">>, description |-> <<"a">>],
                      [name |-> <<"d", "x">>,
                       description |-> <<"a", " ", "d">>],
                      [name |-> <<"c">>, description |-> <<"c", "d", "d">>],
                      [name |-> <<"a", "b">>, description |-> <<>>]>>],
       [name |-> <<"z", "y", "a">>,
        description |-> <<"y", "b">>,
        groups |-> <<<<"a", "b">>, <<"c">>>>,
        columns |-> <<[name |-> <<"_", "a">>, description |-> <<"a", "c">>],
                      [name |-> <<"a", "x", "_">>, description |-> <<>>]>>],
       [name |-> <<"a", "y", "a">>,
        description |-> <<>>,
        groups |-> <<<<"a", "b">>, <<"c", "c">>>>,
        columns |-> <<[name |-> <<"a">>, description |-> <<"c", " ", "c">>],
                      [name |-> <<"a">>, description |-> <<"a">>],
                      [name |-> <<"_", "a", "x">>, description |-> <<>>],
                      [name |-> <<"c", "x", "b">>, description |-> <<>>]>>],
       [name |-> <<"b", "z">>,
        description |-> <<"y", "z", "B">>,
        groups |-> <<MiscellaneousText>>,
        columns |-> <<>>],
       [name |-> <<"y", "x", "a">>,
        description |-> <<"c", "B", " ">>,
        groups |-> <<MiscellaneousText>>,
        columns |-> <<[name |-> <<"_">>, description |-> <<"b", "b", "a">>],
                      [name |-> <<"_", "d">>,
                       description |-> <<"b", "b">>]>>] >>

\* The texts typed into the search box: the empty text, a text of separators
\* only, texts that match many, some and few tables of the catalog, and two
\* texts that repeat a word ("yy yy qqqqqqqq" and "yy yy yy q r s t").
SearchQueries ==
    { <<>>, <<"_">>, <<"a", "b">>, <<"a", "b", "c">>, <<"B", "_", "a">>,
      <<"z", " ", "y">>,
      <<"y", "y", " ", "y", "y", " ", "q", "q", "q", "q", "q", "q", "q", "q">>,
      <<"y", "y", " ", "y", "y", " ", "y", "y", " ", "q", " ", "r", " ", "s",
        " ", "t">> }

\* the table_index entry of a catalog record
IndexEntry(rec) ==
    [name |-> rec.name, description |-> rec.description, groups |-> rec.groups]

\* table_index and table_details of the taxonomy made of the catalog's
\* records first..last; the taxonomies searched are the ones made of the
\* first or of the last tables of the catalog, MaxIndex of them at most
IndexOf(first, last) ==
    [i \in 1..(last - first + 1) |-> IndexEntry(SearchCatalog[first + i - 1])]

DetailsOf(first, last) ==
    [n \in {SearchCatalog[i].name : i \in first..last} |->
        [columns |-> (CHOOSE rec \in Range(SearchCatalog) : rec.name = n).columns]]

\* main() up to line 543: the taxonomy is loaded and a text is typed
SearchInit ==
    /\ pc = "search"
    /\ search_query \in SearchQueries
    /\ \E first \in 1..(Len(SearchCatalog) + 1) :
         \E last \in (first - 1)..Len(SearchCatalog) :
            /\ first = 1 \/ last = Len(SearchCatalog)
            /\ last - first + 1 <= MaxIndex
            /\ browser_table_index = IndexOf(first, last)
            /\ browser_table_details = DetailsOf(first, last)
    /\ results = <<>>
    /\ shown = <<>>
    /\ BuildIdle
    /\ FamiliesIdle
    /\ FuzzyIdle
    /\ RunsIdle
    /\ ColumnsIdle
    /\ FilesIdle
    /\ SessionsIdle
    /\ CuratorIdle

\* lines 544-577 with a text in the box: score, filter, sort, show 15
RunSearch ==
    /\ pc = "search"
    /\ search_query # <<>>
    /\ results' = SearchResults(search_query, browser_table_index,
                                browser_table_details)
    /\ shown' = Prefix(results', MaxResults)
    /\ pc' = "searched"
    /\ UNCHANGED <<buildVars, famVars, fuzzyVars, search_query,
                   browser_table_index, browser_table_details, runVars, colVars, ioVars, sessionVars, curatorVars>>

\* line 544 with an empty box: nothing is searched, nothing is shown
SkipSearch ==
    /\ pc = "search"
    /\ search_query = <<>>
    /\ pc' = "idle"
    /\ UNCHANGED <<buildVars, famVars, fuzzyVars, searchVars, runVars, colVars, ioVars, sessionVars, curatorVars>>

SearchNext == RunSearch \/ SkipSearch

SpecSearch == SearchInit /\ [][SearchNext]_vars

\* the overall score of the table at position i of the index: the best of
\* its three table-level scores and of its column scores of 0.4 and more
OverallScore(i) ==
    LET info    == browser_table_index[i]
        columns == ColumnsOf(browser_table_details, info.name)
        scores  == { fuzzy_score(search_query, info.name),
                     fuzzy_score(search_query, info.description),
                     fuzzy_score(search_query, JoinSpace(info.groups)) }
                   \cup { s \in { fuzzy_score(search_query, col_text(columns[k])) :
                                    k \in DOMAIN columns } :
                            FracLeq(ColumnThreshold, s) }
    IN  CHOOSE s \in scores : \A other \in scores : FracLeq(other, s)

\* the positions of the tables with an overall score of 0.35 and more
Qualifying ==
    { i \in DOMAIN browser_table_index : FracLeq(TableThreshold, OverallScore(i)) }

\* the positions of the tables that are shown
ShownPositions ==
    { i \in DOMAIN browser_table_index :
        \E k \in DOMAIN shown : shown[k].table_name = browser_table_index[i].name }

\* C5: the search shows only tables whose overall score is >= 0.35, each
\* once and with that score, in non-increasing order of score; it shows
\* min(15, number of qualifying tables) of them, and no qualifying table left
\* out has a score strictly higher than a table that is shown.
C5_TopFifteenByScore ==
    pc = "searched" =>
        /\ \A k \in DOMAIN shown :
              /\ FracLeq(TableThreshold, shown[k].score)
              /\ \E i \in Qualifying :
                    /\ browser_table_index[i].name = shown[k].table_name
                    /\ OverallScore(i) = shown[k].score
        /\ \A k, l \in DOMAIN shown :
              k # l => shown[k].table_name # shown[l].table_name
        /\ \A k \in 1..(Len(shown) - 1) :
              FracLeq(shown[k + 1].score, shown[k].score)
        /\ Len(shown) = IF Cardinality(Qualifying) < MaxResults
                        THEN Cardinality(Qualifying) ELSE MaxResults
        /\ \A i \in Qualifying \ ShownPositions :
              \A k \in DOMAIN shown :
                 ~ FracLess(shown[k].score, OverallScore(i))

\* C5's case: more than 15 tables qualify, a table that does not qualify is
\* in the index, 15 tables of different scores are shown, and a table that
\* qualifies only through a column is among them.
C5_Witness ==
    /\ pc = "searched"
    /\ Cardinality(Qualifying) > MaxResults
    /\ Cardinality(Qualifying) < Len(browser_table_index)
    /\ Len(shown) = MaxResults
    /\ shown[1].score # shown[MaxResults].score
    /\ \E k \in DOMAIN shown : \E i \in DOMAIN browser_table_index :
          /\ browser_table_index[i].name = shown[k].table_name
          /\ FracLess(base_score(search_query, browser_table_index[i]),
                      shown[k].score)

(***************************************************************************)
(* Claims about the scores of the search.                                  *)
(***************************************************************************)
\* the places of the words of a text: the maximal runs of letters and digits
\* of the lower-cased text
WordSpans(text) ==
    LET low == LowerText(text)
        n   == Len(text)
    IN  {sp \in (1..n) \X (1..n) :
            /\ sp[1] <= sp[2]
            /\ \A k \in sp[1]..sp[2] : IsAlnum(low[k])
            /\ sp[1] = 1 \/ ~IsAlnum(low[sp[1] - 1])
            /\ sp[2] = n \/ ~IsAlnum(low[sp[2] + 1])}

WordAt(text, sp) == SubSeq(LowerText(text), sp[1], sp[2])

\* the words of a text, each once
Words(text) == {WordAt(text, sp) : sp \in WordSpans(text)}

\* the share of the query's words, each occurrence counted, that the text has
OccurrenceShare(q, text) ==
    Frac(Cardinality({sp \in WordSpans(q) : WordAt(q, sp) \in Words(text)}),
         Max2(1, Cardinality(WordSpans(q))))

\* the share of the query's different words that the text has
DistinctShare(q, text) ==
    Frac(Cardinality(Words(q) \cap Words(text)), Max2(1, Cardinality(Words(q))))

\* the three texts of a table that the base score looks at
FieldsOf(info) == {info.name, info.description, JoinSpace(info.groups)}

\* fuzzy_score gets as far as the three signals for this pair
SignalsUsed(q, text) == HasAlnum(q) /\ HasAlnum(text)

ResultNames == {results[k].table_name : k \in DOMAIN results}

\* C21 as stated: token_overlap is the number of the query's word-tokens
\* found among the text's tokens over the number of the query's tokens, a
\* repeated token counted each time; the score is never below it; a table
\* with at least 35% of the query's tokens in its name, its description or
\* its group names is retained.
C21_OverlapPerToken ==
    pc = "searched" =>
        \A i \in DOMAIN browser_table_index :
            \A text \in FieldsOf(browser_table_index[i]) :
                /\ SignalsUsed(search_query, text) =>
                      /\ token_overlap(normalize(search_query), normalize(text)) =
                            OccurrenceShare(search_query, text)
                      /\ FracLeq(OccurrenceShare(search_query, text),
                                 fuzzy_score(search_query, text))
                /\ FracLeq(TableThreshold, OccurrenceShare(search_query, text)) =>
                      browser_table_index[i].name \in ResultNames

\* C21 as amended: the same over the different tokens of the query, a
\* repeated token counted once in both counts.
C21_OverlapPerDistinctToken ==
    pc = "searched" =>
        \A i \in DOMAIN browser_table_index :
            \A text \in FieldsOf(browser_table_index[i]) :
                /\ SignalsUsed(search_query, text) =>
                      /\ token_overlap(normalize(search_query), normalize(text)) =
                            DistinctShare(search_query, text)
                      /\ FracLeq(DistinctShare(search_query, text),
                                 fuzzy_score(search_query, text))
                /\ FracLeq(TableThreshold, DistinctShare(search_query, text)) =>
                      browser_table_index[i].name \in ResultNames

\* a query that repeats a word, and a table retained by the overlap alone:
\* its score is the share of the query's different words in one of its
\* texts, which differs from the share counted per occurrence, and both
\* ratios of each of its texts are under 0.35
C21_Witness ==
    /\ pc = "searched"
    /\ Cardinality(WordSpans(search_query)) > Cardinality(Words(search_query))
    /\ \E k \in DOMAIN results : \E i \in DOMAIN browser_table_index :
          /\ browser_table_index[i].name = results[k].table_name
          /\ \E text \in FieldsOf(browser_table_index[i]) :
                /\ results[k].score = DistinctShare(search_query, text)
                /\ DistinctShare(search_query, text) #
                      OccurrenceShare(search_query, text)
          /\ \A text \in FieldsOf(browser_table_index[i]) :
                /\ FracLess(ratio(normalize(search_query), normalize(text)),
                            TableThreshold)
                /\ FracLess(ratio(compact(search_query), compact(text)),
                            TableThreshold)

(***************************************************************************)
(* parse_column() on the strings generate_context.py writes: SpecColumns.  *)
(***************************************************************************)
MaxColName == 3

MaxColPart == 2

ColumnAlphabet == {"a", " ", "(", ")", ":"}

\* generate_context.py line 51: f"{c_name} ({col['DATA_TYPE']}): {col_desc}"
EncodeColumn(name, data_type, description) ==
    name \o <<" ", "(">> \o data_type \o <<")", ":", " ">> \o description

ColumnsInit ==
    /\ pc = "column"
    /\ col_name \in SeqsUpTo(ColumnAlphabet, MaxColName)
    /\ col_type \in SeqsUpTo(ColumnAlphabet, MaxColPart)
    /\ col_desc \in SeqsUpTo(ColumnAlphabet, MaxColPart)
    /\ parsed = None
    /\ parsed_bare = None
    /\ BuildIdle
    /\ FamiliesIdle
    /\ FuzzyIdle
    /\ SearchIdle
    /\ RunsIdle
    /\ FilesIdle
    /\ SessionsIdle
    /\ CuratorIdle

\* parse_column applied to the encoded column and to the name alone
CallParseColumn ==
    /\ pc = "column"
    /\ parsed' = parse_column(EncodeColumn(col_name, col_type, col_desc))
    /\ parsed_bare' = parse_column(col_name)
    /\ pc' = "column_parsed"
    /\ UNCHANGED <<buildVars, famVars, fuzzyVars, searchVars, runVars,
                   col_name, col_type, col_desc, ioVars, sessionVars, curatorVars>>

SpecColumns == ColumnsInit /\ [][CallParseColumn]_vars

Contains(s, pat) == Find(s, pat) # 0

ColumnFields == {"name", "data_type", "description"}

\* C23 as stated: parse_column gives back the name, TYPE and description of
\* every encoded column unchanged, gives a string without a type part back
\* as the name with data_type and description empty, and returns a record
\* of three strings for every input.
C23_ParseInvertsEncoding ==
    pc = "column_parsed" =>
        /\ parsed = [name |-> col_name, data_type |-> col_type,
                     description |-> col_desc]
        /\ ~Contains(col_name, <<" ", "(">>) =>
              parsed_bare = [name |-> col_name, data_type |-> <<>>,
                             description |-> <<>>]
        /\ DOMAIN parsed = ColumnFields
        /\ DOMAIN parsed_bare = ColumnFields

\* the parts that survive the encoding: no " (" in the name, no "):" in the
\* type, no space around any of the three, no ":" at the head of the
\* description
SurvivesEncoding(name, data_type, description) ==
    /\ ~Contains(name, <<" ", "(">>)
    /\ strip(name) = name
    /\ ~Contains(data_type, <<")", ":">>)
    /\ strip(data_type) = data_type
    /\ strip(description) = description
    /\ description = <<>> \/ description[1] # ":"

\* C23 as amended: parse_column gives back exactly the encoded columns whose
\* parts survive the encoding; a string without " (" parses to the string
\* stripped of the spaces around it, with data_type and description empty;
\* every input gives a record of three strings.
C23_ParseInvertsCleanEncoding ==
    pc = "column_parsed" =>
        /\ SurvivesEncoding(col_name, col_type, col_desc) <=>
              parsed = [name |-> col_name, data_type |-> col_type,
                        description |-> col_desc]
        /\ ~Contains(col_name, <<" ", "(">>) =>
              parsed_bare = [name |-> strip(col_name), data_type |-> <<>>,
                             description |-> <<>>]
        /\ DOMAIN parsed = ColumnFields
        /\ DOMAIN parsed_bare = ColumnFields
        /\ \A f \in ColumnFields :
              /\ parsed[f] \in Seq(ColumnAlphabet)
              /\ parsed_bare[f] \in Seq(ColumnAlphabet)

\* a column with a type that holds parentheses, "a ((a)): a", parsed back
\* to its three parts
C23_Witness ==
    /\ pc = "column_parsed"
    /\ col_name = <<"a">>
    /\ col_type = <<"(", ")">>
    /\ col_desc = <<"a">>
    /\ parsed = [name |-> <<"a">>, data_type |-> <<"(", ")">>,
                 description |-> <<"a">>]
    /\ parsed_bare = [name |-> <<"a">>, data_type |-> <<>>, description |-> <<>>]

\* the score of column j of a table against the query
ColumnScore(columns, j) == fuzzy_score(search_query, col_text(columns[j]))

\* the columns of a table that score 0.4 and more
GoodColumns(columns) ==
    {j \in DOMAIN columns : FracLeq(ColumnThreshold, ColumnScore(columns, j))}

\* the best score among the columns of 0.4 and more, 0.0 without any
BestGoodScore(columns) ==
    IF GoodColumns(columns) = {} THEN Zero
    ELSE LET scores == {ColumnScore(columns, j) : j \in GoodColumns(columns)}
         IN  CHOOSE s \in scores : \A other \in scores : FracLeq(other, s)

\* hit h is column j with its score
IsColumn(columns, h, j) ==
    /\ h.name = columns[j].name
    /\ h.description = columns[j].description
    /\ h.score = ColumnScore(columns, j)

\* the hits are different columns of the table
HitsAreColumns(columns, hits) ==
    \E f \in [DOMAIN hits -> DOMAIN columns] :
        /\ \A a, b \in DOMAIN hits : a # b => f[a] # f[b]
        /\ \A a \in DOMAIN hits : IsColumn(columns, hits[a], f[a])

\* what C22 says of one returned table
TopHitsRight(r, info, columns) ==
    /\ Len(r.hits) <= MaxColumnHits
    /\ Len(r.hits) = IF Cardinality(GoodColumns(columns)) < MaxColumnHits
                     THEN Cardinality(GoodColumns(columns)) ELSE MaxColumnHits
    /\ HitsAreColumns(columns, r.hits)
    /\ \A a \in DOMAIN r.hits : FracLeq(ColumnThreshold, r.hits[a].score)
    /\ \A a \in 1..(Len(r.hits) - 1) : FracLeq(r.hits[a + 1].score, r.hits[a].score)
    /\ \A j \in DOMAIN columns : \A a \in DOMAIN r.hits :
          FracLess(r.hits[a].score, ColumnScore(columns, j)) =>
              \E b \in DOMAIN r.hits : IsColumn(columns, r.hits[b], j)
    /\ r.score = FracMax(base_score(search_query, info), BestGoodScore(columns))

\* C22: every returned table has at most 3 column hits, each a column of the
\* table scoring 0.4 or more, in non-increasing order of score, no column
\* left out scoring higher than one listed; its overall score is the larger
\* of its base score and its best column score.
C22_TopColumnHits ==
    pc = "searched" =>
        \A k \in DOMAIN results :
            \E i \in DOMAIN browser_table_index :
                /\ browser_table_index[i].name = results[k].table_name
                /\ TopHitsRight(results[k], browser_table_index[i],
                                ColumnsOf(browser_table_details,
                                          browser_table_index[i].name))

\* a shown table with more than 3 columns of 0.4 and more, not in the order
\* of their scores in the table, 3 of them listed, and a score that comes
\* from a column
C22_Witness ==
    /\ pc = "searched"
    /\ \E k \in DOMAIN shown : \E i \in DOMAIN browser_table_index :
          LET columns == ColumnsOf(browser_table_details, browser_table_index[i].name)
          IN  /\ browser_table_index[i].name = shown[k].table_name
              /\ Cardinality(GoodColumns(columns)) > MaxColumnHits
              /\ Len(shown[k].hits) = MaxColumnHits
              /\ \E j \in GoodColumns(columns) : \E l \in GoodColumns(columns) :
                    j < l /\ FracLess(ColumnScore(columns, j), ColumnScore(columns, l))
              /\ shown[k].hits[1].score # shown[k].hits[MaxColumnHits].score
              /\ FracLess(base_score(search_query, browser_table_index[i]),
                          shown[k].score)

(***************************************************************************)
(* The build with its files, run by app.py or as a script: SpecApp.        *)
(* ensure_taxonomy() of app.py (lines 10-29) builds taxonomy.json when it  *)
(* is missing and then starts the browser (lines 32-36); the script form   *)
(* (build_taxonomy.py lines 484-485) always builds.  build_taxonomy reads  *)
(* context.json first (lines 206-207) and writes taxonomy.json and         *)
(* taxonomy.md last (lines 454-455 and 479-480).                           *)
(***************************************************************************)
MaxAppTables == 1

\* the content of a context.json that can be read
AppContexts ==
    {[state |-> "readable", tables |-> t, groups |-> g] :
        t \in {ti \in TableInputs : Len(ti) <= MaxAppTables}, g \in GroupInputs}

\* context.json as the build finds it
ContextFiles ==
    {[state |-> "missing", tables |-> <<>>, groups |-> <<>>],
     [state |-> "unreadable", tables |-> <<>>, groups |-> <<>>]} \cup AppContexts

\* a taxonomy.json and a taxonomy.md left by an earlier build of other input
StaleJson ==
    [domains |-> <<>>, group_hierarchy |-> <<>>, table_index |-> <<>>,
     table_details |-> <<>>, explicit_relationships |-> <<>>]

StaleMd == [lines |-> <<>>]

\* lines 457-477, what the summary prints of a group or subgroup
MdGroup(g) ==
    [name |-> g.name, description |-> g.description,
     families |-> [i \in DOMAIN g.table_families |->
                      [family |-> g.table_families[i].family,
                       variants |-> g.table_families[i].variants]],
     tables |-> [i \in DOMAIN g.tables |-> g.tables[i].table]]

\* lines 457-480: the summary, a heading per domain and an item per group
\* with its families, its tables and its subgroups
Markdown(doms) ==
    [lines |->
        [d \in DOMAIN doms |->
            [heading |-> doms[d].name,
             groups |-> [k \in DOMAIN doms[d].groups |->
                            [group |-> MdGroup(doms[d].groups[k]),
                             subgroups |->
                                 [j \in DOMAIN doms[d].groups[k].subgroups |->
                                     MdGroup(doms[d].groups[k].subgroups[j])]]]]]]

AppInit ==
    /\ pc = "entry"
    /\ caller \in {"app", "script"}
    /\ context_file \in ContextFiles
    /\ taxonomy_json \in {None, StaleJson}
    /\ taxonomy_md \in {None, StaleMd}
    /\ build_error = "none"
    /\ app_error = "none"
    /\ browser = "not_started"
    /\ BuildIdle
    /\ FamiliesIdle
    /\ FuzzyIdle
    /\ SearchIdle
    /\ RunsIdle
    /\ ColumnsIdle
    /\ SessionsIdle
    /\ CuratorIdle

\* app.py lines 10-24: nothing to do with a taxonomy.json, stop without a
\* context.json, build otherwise
EnsureTaxonomy ==
    /\ pc = "entry"
    /\ caller = "app"
    /\ IF taxonomy_json # None
       THEN pc' = "ensured" /\ app_error' = app_error
       ELSE IF context_file.state = "missing"
            THEN pc' = "stopped" /\ app_error' = "context.json was not found"
            ELSE pc' = "open_input" /\ app_error' = app_error
    /\ UNCHANGED <<buildVars, famVars, fuzzyVars, searchVars, runVars, colVars,
                   caller, context_file, taxonomy_json, taxonomy_md, build_error,
                   browser,
                   sessionVars, curatorVars>>

\* build_taxonomy.py lines 484-485
ScriptMain ==
    /\ pc = "entry"
    /\ caller = "script"
    /\ pc' = "open_input"
    /\ UNCHANGED <<buildVars, famVars, fuzzyVars, searchVars, runVars, colVars,
                   ioVars, sessionVars, curatorVars>>

\* open() and json.load() raise on a file that is missing or cannot be read
\* or decoded; the exception leaves build_taxonomy
InputRaises ==
    /\ context_file.state # "readable"
    /\ build_error' = IF context_file.state = "missing" THEN "FileNotFoundError"
                      ELSE "JSONDecodeError"
    /\ pc' = "raised"
    /\ UNCHANGED <<tables, groups>>

\* lines 209-210
InputRead ==
    /\ context_file.state = "readable"
    /\ tables' = context_file.tables
    /\ groups' = context_file.groups
    /\ pc' = "start"
    /\ UNCHANGED build_error

\* build_taxonomy lines 206-210
OpenInput ==
    /\ pc = "open_input"
    /\ InputRaises \/ InputRead
    /\ UNCHANGED <<table_descriptions, table_to_groups, ungrouped, normalized_groups,
                   misc_subgroups, domains, table_index, table_details,
                   explicit_relationships, famVars, fuzzyVars, searchVars, runVars,
                   colVars, caller, context_file, taxonomy_json, taxonomy_md,
                   app_error, browser,
                   sessionVars, curatorVars>>

\* lines 454-455
WriteTaxonomyJson ==
    /\ pc = "done"
    /\ caller # "none"
    /\ taxonomy_json' = Output
    /\ pc' = "json_written"
    /\ UNCHANGED <<buildVars, famVars, fuzzyVars, searchVars, runVars, colVars,
                   caller, context_file, taxonomy_md, build_error, app_error,
                   browser,
                   sessionVars, curatorVars>>

\* lines 457-481
WriteTaxonomyMd ==
    /\ pc = "json_written"
    /\ taxonomy_md' = Markdown(domains)
    /\ pc' = IF caller = "app" THEN "ensured" ELSE "exited"
    /\ UNCHANGED <<buildVars, famVars, fuzzyVars, searchVars, runVars, colVars,
                   caller, context_file, taxonomy_json, build_error, app_error,
                   browser,
                   sessionVars, curatorVars>>

\* the handler of lines 27-29 without its st.stop(): the error is shown and
\* ensure_taxonomy returns
AppExceptContinues ==
    /\ pc = "raised"
    /\ caller = "app"
    /\ app_error' = "Failed to generate taxonomy.json"
    /\ pc' = "ensured"
    /\ UNCHANGED <<buildVars, famVars, fuzzyVars, searchVars, runVars, colVars,
                   caller, context_file, taxonomy_json, taxonomy_md, build_error,
                   browser,
                   sessionVars, curatorVars>>

\* app.py lines 27-29: except Exception: st.error(...); st.stop()
AppExcept ==
    /\ pc = "raised"
    /\ caller = "app"
    /\ app_error' = "Failed to generate taxonomy.json"
    /\ pc' = "stopped"
    /\ UNCHANGED <<buildVars, famVars, fuzzyVars, searchVars, runVars, colVars,
                   caller, context_file, taxonomy_json, taxonomy_md, build_error,
                   browser,
                   sessionVars, curatorVars>>

\* the script form has no handler: the traceback ends the process
ScriptFails ==
    /\ pc = "raised"
    /\ caller = "script"
    /\ pc' = "exited"
    /\ UNCHANGED <<buildVars, famVars, fuzzyVars, searchVars, runVars, colVars,
                   ioVars, sessionVars, curatorVars>>

\* app.py lines 32-36
StartBrowser ==
    /\ pc = "ensured"
    /\ browser' = "started"
    /\ pc' = "browsing"
    /\ UNCHANGED <<buildVars, famVars, fuzzyVars, searchVars, runVars, colVars,
                   caller, context_file, taxonomy_json, taxonomy_md, build_error,
                   app_error,
                   sessionVars, curatorVars>>

AppNext ==
    \/ EnsureTaxonomy
    \/ ScriptMain
    \/ OpenInput
    \/ Next
    \/ WriteTaxonomyJson
    \/ WriteTaxonomyMd
    \/ AppExcept
    \/ ScriptFails
    \/ StartBrowser

SpecApp == AppInit /\ [][AppNext]_vars

\* context.json is missing or cannot be read
InputBad == caller # "none" /\ context_file.state # "readable"

\* what a step does while the input is bad
BadInputStep ==
    /\ taxonomy_json' = taxonomy_json
    /\ taxonomy_md' = taxonomy_md
    /\ pc = "open_input" => (pc' = "raised" /\ build_error' # "none")
    /\ (pc = "raised" /\ caller = "app") =>
          (pc' = "stopped" /\ app_error' # "none" /\ browser' = "not_started")
    /\ (pc = "raised" /\ caller = "script") => build_error' = build_error
    /\ pc # "stopped"

\* C24: with context.json missing or unreadable build_taxonomy raises to its
\* caller, no step creates or changes taxonomy.json or taxonomy.md, and the
\* app then stops for good without starting the browser.
C24_BadInputWritesNothing == [][InputBad => BadInputStep]_vars

\* the app stopped on a context.json it could not read: the build raised,
\* the stale taxonomy.md is as it was, there is no taxonomy.json, no browser
C24_Witness ==
    /\ pc = "stopped"
    /\ caller = "app"
    /\ context_file.state = "unreadable"
    /\ build_error = "JSONDecodeError"
    /\ app_error = "Failed to generate taxonomy.json"
    /\ taxonomy_json = None
    /\ taxonomy_md = StaleMd
    /\ browser = "not_started"

(***************************************************************************)
(* Several browser sessions searching one index: SpecSessions.  Each       *)
(* session runs the loop of lines 544-564 with its own query and its own   *)
(* results list, one table of table_index.items() per step; the steps of   *)
(* the sessions interleave.                                                *)
(***************************************************************************)
Sessions == {1, 2}

MaxSessionIndex == 2

\* the texts typed in the sessions
SessionQueries == {<<>>, <<"a", "b">>, <<"B", "_", "a">>, <<"z", " ", "y">>}

SessionsInit ==
    /\ pc = "sessions"
    /\ sess_query \in [Sessions -> SessionQueries]
    /\ sess_phase = [s \in Sessions |-> "start"]
    /\ sess_next = [s \in Sessions |-> 1]
    /\ sess_results = [s \in Sessions |-> <<>>]
    /\ \E first \in 1..(Len(SearchCatalog) + 1) :
         \E last \in (first - 1)..Len(SearchCatalog) :
            /\ last - first + 1 <= MaxSessionIndex
            /\ browser_table_index = IndexOf(first, last)
            /\ browser_table_details = DetailsOf(first, last)
    /\ search_query = <<>>
    /\ results = <<>>
    /\ shown = <<>>
    /\ BuildIdle
    /\ FamiliesIdle
    /\ FuzzyIdle
    /\ RunsIdle
    /\ ColumnsIdle
    /\ FilesIdle
    /\ CuratorIdle

\* lines 544-545: `if query:` and `results = []`; nothing happens without a
\* query
BeginSearch(s) ==
    /\ sess_phase[s] = "start"
    /\ sess_phase' = [sess_phase EXCEPT ![s] = IF sess_query[s] = <<>> THEN "idle"
                                               ELSE "scoring"]
    /\ UNCHANGED <<pc, buildVars, famVars, fuzzyVars, searchVars, runVars, colVars,
                   ioVars, sess_query, sess_next, sess_results,
                   curatorVars>>

\* the results list after one more turn of the loop of lines 546-563
WithTable(res, r) == IF r = None THEN res ELSE Append(res, r)

\* the columns of a table ordered by their score against q, best first
ColumnsByScore(q, columns) ==
    LET scored == SortDescending([k \in DOMAIN columns |->
                                     [score |-> fuzzy_score(q, col_text(columns[k])),
                                      column |-> columns[k]]])
    IN  [k \in DOMAIN scored |-> scored[k].column]

\* one turn of the loop that sorts the table's own column list, the list of
\* table_details, instead of a list of its own
ScoreTableSortingInPlace(s) ==
    /\ sess_phase[s] = "scoring"
    /\ sess_next[s] <= Len(browser_table_index)
    /\ sess_results' =
          [sess_results EXCEPT ![s] =
              WithTable(@, TableResult(sess_query[s],
                                       browser_table_index[sess_next[s]],
                                       browser_table_details))]
    /\ browser_table_details' =
          [browser_table_details EXCEPT
              ![browser_table_index[sess_next[s]].name].columns =
                  ColumnsByScore(sess_query[s], @)]
    /\ sess_next' = [sess_next EXCEPT ![s] = @ + 1]
    /\ UNCHANGED <<pc, buildVars, famVars, fuzzyVars, search_query,
                   browser_table_index, results, shown, runVars, colVars, ioVars,
                   sess_query, sess_phase,
                   curatorVars>>

\* lines 546-563, one turn: the table is scored and, at 0.35 or more,
\* appended to the session's list
ScoreTable(s) ==
    /\ sess_phase[s] = "scoring"
    /\ sess_next[s] <= Len(browser_table_index)
    /\ sess_results' =
          [sess_results EXCEPT ![s] =
              WithTable(@, TableResult(sess_query[s],
                                       browser_table_index[sess_next[s]],
                                       browser_table_details))]
    /\ sess_next' = [sess_next EXCEPT ![s] = @ + 1]
    /\ UNCHANGED <<pc, buildVars, famVars, fuzzyVars, searchVars, runVars, colVars,
                   ioVars, sess_query, sess_phase,
                   curatorVars>>

\* line 564, once the loop is over: results.sort(reverse=True, key=...)
SortResults(s) ==
    /\ sess_phase[s] = "scoring"
    /\ sess_next[s] > Len(browser_table_index)
    /\ sess_results' = [sess_results EXCEPT ![s] = SortDescending(@)]
    /\ sess_phase' = [sess_phase EXCEPT ![s] = "sorted"]
    /\ UNCHANGED <<pc, buildVars, famVars, fuzzyVars, searchVars, runVars, colVars,
                   ioVars, sess_query, sess_next,
                   curatorVars>>

SessionsNext ==
    \E s \in Sessions : BeginSearch(s) \/ ScoreTable(s) \/ SortResults(s)

SpecSessions == SessionsInit /\ [][SessionsNext]_vars

\* C25: no step of a search changes table_index or table_details, the
\* column lists and their order included, and however the searches
\* interleave each one ends with the results it has when run alone.
C25_SearchLeavesIndexUnchanged ==
    [][/\ browser_table_index' = browser_table_index
       /\ browser_table_details' = browser_table_details
       /\ \A s \in Sessions :
             sess_phase'[s] = "sorted" =>
                sess_results'[s] = SearchResults(sess_query[s], browser_table_index,
                                                 browser_table_details)]_vars

\* one session has its sorted results, with column hits, while the other,
\* searching another text, is in the middle of its loop with a table kept
C25_Witness ==
    /\ pc = "sessions"
    /\ sess_phase[1] = "sorted"
    /\ sess_results[1] # <<>>
    /\ \E k \in DOMAIN sess_results[1] : sess_results[1][k].hits # <<>>
    /\ sess_phase[2] = "scoring"
    /\ sess_next[2] = 2
    /\ Len(browser_table_index) = MaxSessionIndex
    /\ sess_results[2] # <<>>
    /\ sess_query[2] # sess_query[1]

\* the best score among all the columns of a table, 0.0 without columns
BestColumnScore(columns) ==
    IF columns = <<>> THEN Zero
    ELSE LET scores == {ColumnScore(columns, j) : j \in DOMAIN columns}
         IN  CHOOSE s \in scores : \A other \in scores : FracLeq(other, s)

\* C28: a column scoring under 0.4 adds nothing to the score of its table:
\* a table with a base score under 0.35 and every column under 0.4 is not
\* returned, also when a column scores 0.35 or more; and the score of a
\* returned table is its base score unless a column of 0.4 or more beats it.
C28_WeakColumnsNeverCount ==
    pc = "searched" =>
        \A i \in DOMAIN browser_table_index :
            LET info == browser_table_index[i]
            IN  /\ (/\ FracLess(base_score(search_query, info), TableThreshold)
                    /\ GoodColumns(ColumnsOf(browser_table_details, info.name)) = {})
                   => info.name \notin ResultNames
                /\ \A k \in DOMAIN results :
                      (/\ results[k].table_name = info.name
                       /\ results[k].score # base_score(search_query, info))
                      => FracLeq(ColumnThreshold, results[k].score)

\* a table left out although one of its columns scores in [0.35, 0.4): its
\* base score is under 0.35 and no column reaches 0.4
C28_Witness ==
    /\ pc = "searched"
    /\ results # <<>>
    /\ \E i \in DOMAIN browser_table_index :
          LET info == browser_table_index[i]
              columns == ColumnsOf(browser_table_details, info.name)
          IN  /\ FracLess(base_score(search_query, info), TableThreshold)
              /\ GoodColumns(columns) = {}
              /\ FracLeq(TableThreshold, BestColumnScore(columns))
              /\ info.name \notin ResultNames

(***************************************************************************)
(* dictionary_builder.py, tab 0 of the curator: SpecCurator.  Every run    *)
(* of the script loads state['groups'] from the saved file (lines 128-138, *)
(* 191, 217), so a change of `groups` lasts only when save_state() was     *)
(* called after it; st.session_state.selected_groups lasts for the whole   *)
(* session.  A parent list holds no name twice (lines 386-389, 439-451)    *)
(* and nothing below depends on its order: it is kept as the set of its    *)
(* names.                                                                  *)
(***************************************************************************)
\* the names typed into the two forms
CuratorNames == {"A", "B", "P"}

\* the tables checked when a group is created
CuratorTables == {"orders"}

CuratorInit ==
    /\ pc = "curator"
    /\ curator_groups = <<>>
    /\ selected_groups = {}
    /\ submission = "none"
    /\ BuildIdle
    /\ FamiliesIdle
    /\ FuzzyIdle
    /\ SearchIdle
    /\ RunsIdle
    /\ ColumnsIdle
    /\ FilesIdle
    /\ SessionsIdle

\* lines 296-301 and 375-379: a new group, without parents
NewGroup(tbls) == [parent_groups |-> {}, tables |-> tbls]

\* lines 290-305, the form create_group_from_tables submitted with a name
CreateGroup(name) ==
    /\ pc = "curator"
    /\ IF name \in DOMAIN curator_groups
       THEN /\ submission' = "group exists"
            /\ UNCHANGED curator_groups
       ELSE /\ curator_groups' = curator_groups @@ (name :> NewGroup(CuratorTables))
            /\ submission' = "group created"
    /\ UNCHANGED <<pc, buildVars, famVars, fuzzyVars, searchVars, runVars, colVars,
                   ioVars, sessionVars, selected_groups>>

\* lines 325-344: the checkbox of a group that exists, checked or unchecked
ToggleGroup(g) ==
    /\ pc = "curator"
    /\ g \in DOMAIN curator_groups
    /\ selected_groups' = IF g \in selected_groups THEN selected_groups \ {g}
                          ELSE selected_groups \cup {g}
    /\ submission' = "none"
    /\ UNCHANGED <<pc, buildVars, famVars, fuzzyVars, searchVars, runVars, colVars,
                   ioVars, sessionVars, curator_groups>>

\* lines 375-389: the parent is added and appended to the parent list of
\* every selected group that does not have it
WithParent(grps, parent, children) ==
    LET added == grps @@ (parent :> NewGroup({}))
    IN  [g \in DOMAIN added |->
            IF g \in children
            THEN [added[g] EXCEPT !.parent_groups = @ \cup {parent}]
            ELSE added[g]]

\* lines 369-394, the form create_parent_group submitted with a name; the
\* button is disabled without a selection.  groups[child_group] of line 386
\* raises KeyError for a selected name that is no group: the run ends there,
\* before save_state() and before the selection is cleared.
CreateParentGroup(name) ==
    /\ pc = "curator"
    /\ selected_groups # {}
    /\ IF name \in DOMAIN curator_groups
       THEN /\ submission' = "parent exists"
            /\ UNCHANGED <<curator_groups, selected_groups>>
       ELSE IF selected_groups \subseteq DOMAIN curator_groups \cup {name}
            THEN /\ curator_groups' = WithParent(curator_groups, name, selected_groups)
                 /\ selected_groups' = {}
                 /\ submission' = "parent created"
            ELSE /\ submission' = "KeyError"
                 /\ UNCHANGED <<curator_groups, selected_groups>>
    /\ UNCHANGED <<pc, buildVars, famVars, fuzzyVars, searchVars, runVars, colVars,
                   ioVars, sessionVars>>

\* lines 439-452: the multiselect of a group's parents changed; its options
\* are the other groups.  What the widget does with a default that is not
\* among its options is the library's: the handler is left enabled.
EditParents(g, updated_parents) ==
    /\ pc = "curator"
    /\ g \in DOMAIN curator_groups
    /\ updated_parents \subseteq DOMAIN curator_groups \ {g}
    /\ updated_parents # curator_groups[g].parent_groups
    /\ curator_groups' = [curator_groups EXCEPT ![g].parent_groups = updated_parents]
    /\ submission' = "parents edited"
    /\ UNCHANGED <<pc, buildVars, famVars, fuzzyVars, searchVars, runVars, colVars,
                   ioVars, sessionVars, selected_groups>>

\* lines 454-463: the group leaves every parent list and the dict
DeleteGroup(g) ==
    /\ pc = "curator"
    /\ g \in DOMAIN curator_groups
    /\ curator_groups' =
          [h \in DOMAIN curator_groups \ {g} |->
              [curator_groups[h] EXCEPT !.parent_groups = @ \ {g}]]
    /\ submission' = "group deleted"
    /\ UNCHANGED <<pc, buildVars, famVars, fuzzyVars, searchVars, runVars, colVars,
                   ioVars, sessionVars, selected_groups>>

CuratorNext ==
    \/ \E name \in CuratorNames : CreateGroup(name)
    \/ \E g \in CuratorNames : ToggleGroup(g)
    \/ \E name \in CuratorNames : CreateParentGroup(name)
    \/ \E g \in CuratorNames : \E updated_parents \in SUBSET CuratorNames :
          EditParents(g, updated_parents)
    \/ \E g \in CuratorNames : DeleteGroup(g)

SpecCurator == CuratorInit /\ [][CuratorNext]_vars

\* how a submission of the form create_parent_group ends
ParentSubmissions == {"parent exists", "parent created", "KeyError"}

\* C29: whatever was checked, created and deleted before, when 'Create
\* Parent Group' is submitted every name of selected_groups is a group, and
\* the submission does not fail on a deleted group.
C29_SelectionNamesGroups ==
    [][(pc = "curator" /\ submission' \in ParentSubmissions)
       => /\ selected_groups \subseteq DOMAIN curator_groups
          /\ submission' # "KeyError"]_vars

\* a selection goes stale only by a deletion: a step that deletes no group
\* keeps the selection inside the groups
C29_StaleOnlyByDeletion ==
    [][(/\ selected_groups \subseteq DOMAIN curator_groups
        /\ DOMAIN curator_groups \subseteq DOMAIN curator_groups')
       => selected_groups' \subseteq DOMAIN curator_groups']_vars

CuratorParents(g) == curator_groups[g].parent_groups

RECURSIVE CuratorAncestorsFrom(_, _)
\* the groups reached from the names of `frontier` by parent links, `seen`
\* included
CuratorAncestorsFrom(frontier, seen) ==
    IF frontier \subseteq seen THEN seen
    ELSE CuratorAncestorsFrom(
             UNION {CuratorParents(g) : g \in (frontier \ seen) \cap DOMAIN curator_groups},
             seen \cup frontier)

CuratorAncestors(g) == CuratorAncestorsFrom(CuratorParents(g), {})

\* C30: from an empty group set, whatever is created, edited and deleted,
\* every parent_groups entry names an existing group other than the group
\* itself, and no group is its own ancestor.
C30_ParentsExistAndAcyclic ==
    pc = "curator" =>
        \A g \in DOMAIN curator_groups :
            /\ CuratorParents(g) \subseteq DOMAIN curator_groups
            /\ g \notin CuratorParents(g)
            /\ g \notin CuratorAncestors(g)

\* the part that holds: every parent_groups entry names an existing group
C30_ParentsExist ==
    pc = "curator" =>
        \A g \in DOMAIN curator_groups :
            CuratorParents(g) \subseteq DOMAIN curator_groups

====
